---- MODULE Spec2Model ----
(***************************************************************************)
(* kube-booster: the pod reconciler (pkg/controller), the warmup           *)
(* configuration resolver and the warmup executor (pkg/warmup), modelled   *)
(* as a state machine over one pod object held by the API server.          *)
(*                                                                         *)
(* Durations are counted in milliseconds.  A Go string whose characters    *)
(* the code inspects (annotation values, the endpoint path) is a sequence  *)
(* of one-character strings; Str turns it into the text it spells.         *)
(***************************************************************************)
EXTENDS Integers, Sequences, FiniteSets, TLC

VARIABLES
    pod,        \* the pod object stored by the API server
    executor,   \* PodReconciler.WarmupExecutor: "nil" or "vegeta"
    pc,         \* where the reconciler is: idle, execute, update, done
    snap,       \* the pod fetched by r.Get at the start of this Reconcile
    config,     \* the *warmup.Config of this Reconcile
    result,     \* the *warmup.Result handed to setConditionTrue
    ret,        \* what Reconcile returned: (ctrl.Result, error)
    calls,      \* calls made by this Reconcile: ParseConfig, Execute, Status().Update
    updated,    \* outcome of this Reconcile's Status().Update
    attempts,   \* Reconcile invocations finished so far
    envSteps,   \* writes by other clients (kubelet, users) so far
    attack,     \* the attack of the Execute call in progress: context, goroutine, metrics
    clock,      \* the time since the reconciler created warmupCtx, in pacing intervals
    peer,       \* a second reconciler working on the same pod, with its cache
    reconcileCtx \* the context Reconcile was called with: its error, Nil while live

vars == <<pod, executor, pc, snap, config, result, ret, calls, updated,
          attempts, envSteps, attack, clock, peer, reconcileCtx>>

-----------------------------------------------------------------------------
(* Bounds of the model *)

\* Reconcile invocations explored for the pod
MaxAttempts == 2
\* writes by other API clients explored
MaxEnvSteps == 1
\* requests one warmup run is let to issue
MaxRequests == 2
\* direct calls of setConditionTrue, or of the webhook, explored on one pod
MaxCalls == 3
\* pacing intervals the clock runs on after the warmup deadline
MaxLate == 1

-----------------------------------------------------------------------------
(* Constants of the program *)

\* time.Second, in the model's unit
Second == 1000
Minute == 60 * Second
Hour == 60 * Minute

AnnotationWarmupEnabled == "kube-booster.io/warmup"
AnnotationWarmupEndpoint == "kube-booster.io/warmup-endpoint"
AnnotationWarmupRequests == "kube-booster.io/warmup-requests"
AnnotationWarmupDuration == "kube-booster.io/warmup-duration"
AnnotationWarmupPort == "kube-booster.io/warmup-port"
ReadinessGateName == "kube-booster.io/warmup-ready"
ConditionTypeWarmupReady == "kube-booster.io/warmup-ready"
WarmupEnabledValue == "enabled"

DefaultRequestCount == 3
DefaultDuration == 30 * Second
DefaultEndpointPath == <<"/">>

\* corev1 names used by the controller
ContainersReady == "ContainersReady"
PodRunning == "Running"
PodPending == "Pending"
ConditionTrue == "True"
ConditionFalse == "False"

\* the nil error
Nil == "<nil>"

-----------------------------------------------------------------------------
(* Strings *)

RECURSIVE Str(_)
Str(s) == IF s = <<>> THEN "" ELSE Head(s) \o Str(Tail(s))

\* fmt's %q and strconv.Quote of a printable ASCII string
Quote(s) == "\"" \o Str(s) \o "\""

IsDigit(c) == c \in {"0", "1", "2", "3", "4", "5", "6", "7", "8", "9"}

DigitVal(c) ==
    CASE c = "0" -> 0 [] c = "1" -> 1 [] c = "2" -> 2 [] c = "3" -> 3
      [] c = "4" -> 4 [] c = "5" -> 5 [] c = "6" -> 6 [] c = "7" -> 7
      [] c = "8" -> 8 [] c = "9" -> 9

DigitChar(d) ==
    CASE d = 0 -> "0" [] d = 1 -> "1" [] d = 2 -> "2" [] d = 3 -> "3"
      [] d = 4 -> "4" [] d = 5 -> "5" [] d = 6 -> "6" [] d = 7 -> "7"
      [] d = 8 -> "8" [] d = 9 -> "9"

\* fmt's %d
RECURSIVE Itoa(_)
Itoa(n) ==
    IF n < 0 THEN "-" \o Itoa(-n)
    ELSE IF n < 10 THEN DigitChar(n)
    ELSE Itoa(n \div 10) \o DigitChar(n % 10)

RECURSIVE DecimalValue(_)
DecimalValue(s) ==
    IF s = <<>> THEN 0
    ELSE 10 * DecimalValue(SubSeq(s, 1, Len(s) - 1)) + DigitVal(s[Len(s)])

AllDigits(s) == \A i \in 1..Len(s) : IsDigit(s[i])

\* strconv.Atoi on a non-empty string short enough for its fast path:
\* an optional sign, then digits only
Atoi(s) ==
    LET signed == s[1] \in {"-", "+"}
        body == IF signed THEN Tail(s) ELSE s
    IN  IF body = <<>> \/ ~AllDigits(body)
        THEN [n |-> 0,
              err |-> "strconv.Atoi: parsing " \o Quote(s) \o ": invalid syntax"]
        ELSE [n |-> IF s[1] = "-" THEN -DecimalValue(body) ELSE DecimalValue(body),
              err |-> Nil]

-----------------------------------------------------------------------------
(* time.ParseDuration and time.Duration.String, for durations that are     *)
(* whole milliseconds (units ms, s, m, h)                                  *)

RECURSIVE DigitPrefixLen(_)
DigitPrefixLen(s) ==
    IF s = <<>> \/ ~IsDigit(Head(s)) THEN 0 ELSE 1 + DigitPrefixLen(Tail(s))

\* length of the unit: the characters up to the next '.' or digit
RECURSIVE UnitLen(_)
UnitLen(s) ==
    IF s = <<>> \/ Head(s) = "." \/ IsDigit(Head(s)) THEN 0
    ELSE 1 + UnitLen(Tail(s))

KnownUnit(u) == u \in {<<"m", "s">>, <<"s">>, <<"m">>, <<"h">>}

UnitValue(u) ==
    CASE u = <<"m", "s">> -> 1
      [] u = <<"s">> -> Second
      [] u = <<"m">> -> Minute
      [] u = <<"h">> -> Hour

InvalidDuration(orig) ==
    [d |-> 0, err |-> "time: invalid duration " \o Quote(orig)]

\* the loop of ParseDuration: ([0-9]*(\.[0-9]*)?[a-z]+)+
RECURSIVE DurationSegments(_, _)
DurationSegments(s, orig) ==
    IF s = <<>> THEN [d |-> 0, err |-> Nil]
    ELSE IF ~(s[1] = "." \/ IsDigit(s[1])) THEN InvalidDuration(orig)
    ELSE
      LET n == DigitPrefixLen(s)
          v == DecimalValue(SubSeq(s, 1, n))
          s1 == SubSeq(s, n + 1, Len(s))
          hasDot == s1 # <<>> /\ s1[1] = "."
          s2 == IF hasDot THEN Tail(s1) ELSE s1
          fn == IF hasDot THEN DigitPrefixLen(s2) ELSE 0
          f == DecimalValue(SubSeq(s2, 1, fn))
          scale == 10 ^ fn
          s3 == SubSeq(s2, fn + 1, Len(s2))
          ul == UnitLen(s3)
          u == SubSeq(s3, 1, ul)
          rest == DurationSegments(SubSeq(s3, ul + 1, Len(s3)), orig)
      IN  IF n = 0 /\ fn = 0 THEN InvalidDuration(orig)
          ELSE IF ul = 0
          THEN [d |-> 0, err |-> "time: missing unit in duration " \o Quote(orig)]
          ELSE IF ~KnownUnit(u)
          THEN [d |-> 0, err |-> "time: unknown unit " \o Quote(u)
                                    \o " in duration " \o Quote(orig)]
          ELSE IF rest.err # Nil THEN rest
          ELSE [d |-> v * UnitValue(u) + (f * UnitValue(u)) \div scale + rest.d,
                err |-> Nil]

\* a ParseDuration that answers the default for a text it cannot read
ParseDuration_Default(orig) == [d |-> DefaultDuration, err |-> Nil]

ParseDuration(orig) ==
    LET signed == orig # <<>> /\ orig[1] \in {"-", "+"}
        neg == signed /\ orig[1] = "-"
        s == IF signed THEN Tail(orig) ELSE orig
        segs == DurationSegments(s, orig)
    IN  IF s = <<"0">> THEN [d |-> 0, err |-> Nil]
        ELSE IF s = <<>> THEN InvalidDuration(orig)
        ELSE IF segs.err # Nil THEN segs
        ELSE [d |-> IF neg THEN -segs.d ELSE segs.d, err |-> Nil]

\* the fraction of a second, trailing zeros dropped: 500 -> ".5", 50 -> ".05"
FormatFraction(ms) ==
    IF ms = 0 THEN ""
    ELSE IF ms % 100 = 0 THEN "." \o Itoa(ms \div 100)
    ELSE IF ms % 10 = 0
         THEN "." \o Itoa(ms \div 100) \o Itoa((ms \div 10) % 10)
    ELSE "." \o Itoa(ms \div 100) \o Itoa((ms \div 10) % 10) \o Itoa(ms % 10)

\* Duration.String, which fmt's %v uses
FormatDuration(d) ==
    LET u == IF d < 0 THEN -d ELSE d
        sign == IF d < 0 THEN "-" ELSE ""
        secs == (u \div Second) % 60
        mins == (u \div Minute) % 60
        hours == u \div Hour
        tail == Itoa(secs) \o FormatFraction(u % Second) \o "s"
    IN  IF u = 0 THEN "0s"
        ELSE IF u < Second THEN sign \o Itoa(u) \o "ms"
        ELSE IF hours > 0
             THEN sign \o Itoa(hours) \o "h" \o Itoa(mins) \o "m" \o tail
        ELSE IF mins > 0 THEN sign \o Itoa(mins) \o "m" \o tail
        ELSE sign \o tail

-----------------------------------------------------------------------------
(* pkg/warmup: Config and ParseConfig *)

\* a nil *corev1.Pod
NilPod == [nil |-> TRUE]

\* a Config that starts as the zero value of the struct
NewConfig_ZeroValue ==
    [Endpoint |-> <<>>, RequestCount |-> 0, Duration |-> 0,
     PodIP |-> "", PodName |-> "", PodNamespace |-> "",
     Port |-> 0]

NewConfig ==
    [Endpoint |-> DefaultEndpointPath,
     RequestCount |-> DefaultRequestCount,
     Duration |-> DefaultDuration,
     PodIP |-> "", PodName |-> "", PodNamespace |-> "",
     Port |-> 0]

\* a port resolution that takes the first port it finds
AutoDetectPort_FirstPort(c, containers) ==
    IF Len(containers) >= 1 /\ Len(containers[1].ports) >= 1
    THEN [config |-> [c EXCEPT !.Port = containers[1].ports[1]], err |-> Nil]
    ELSE [config |-> c,
          err |-> "cannot determine warmup port: no container ports found, please specify using annotation "
                  \o AnnotationWarmupPort]

\* the port resolution of ParseConfig when no port annotation applies
AutoDetectPort(c, containers) ==
    IF Len(containers) = 1 /\ Len(containers[1].ports) = 1
    THEN [config |-> [c EXCEPT !.Port = containers[1].ports[1]], err |-> Nil]
    ELSE IF Len(containers) = 1 /\ Len(containers[1].ports) > 1
    THEN [config |-> c,
          err |-> "container " \o Quote(containers[1].name)
                  \o " has multiple ports, please specify warmup port using annotation "
                  \o AnnotationWarmupPort]
    ELSE IF Len(containers) > 1
    THEN [config |-> c,
          err |-> "pod has multiple containers, please specify warmup port using annotation "
                  \o AnnotationWarmupPort]
    ELSE [config |-> c,
          err |-> "cannot determine warmup port: no container ports found, please specify using annotation "
                  \o AnnotationWarmupPort]

\* a ParseConfig that prefers the port it can detect to the annotation
ParseConfig_AutoDetectFirst(p) ==
    IF p = NilPod
    THEN [config |-> NewConfig, err |-> "pod is nil, cannot determine warmup port"]
    ELSE
      LET a == p.annotations
          Present(k) == k \in DOMAIN a /\ a[k] # <<>>
          c1 == IF Present(AnnotationWarmupEndpoint)
                THEN [NewConfig EXCEPT !.Endpoint = a[AnnotationWarmupEndpoint]]
                ELSE NewConfig
          reqCountStr == a[AnnotationWarmupRequests]
          reqCount == Atoi(reqCountStr)
          c2 == IF Present(AnnotationWarmupRequests)
                THEN [c1 EXCEPT !.RequestCount = reqCount.n] ELSE c1
          durationStr == a[AnnotationWarmupDuration]
          duration == ParseDuration(durationStr)
          c3 == IF Present(AnnotationWarmupDuration)
                THEN [c2 EXCEPT !.Duration = duration.d] ELSE c2
          portStr == a[AnnotationWarmupPort]
          port == Atoi(portStr)
      IN  IF Present(AnnotationWarmupRequests) /\ reqCount.err # Nil
          THEN [config |-> c1,
                err |-> "invalid warmup-requests value " \o Quote(reqCountStr)
                        \o ": " \o reqCount.err]
          ELSE IF Present(AnnotationWarmupRequests) /\ reqCount.n < 1
          THEN [config |-> c1,
                err |-> "warmup-requests must be at least 1, got " \o Itoa(reqCount.n)]
          ELSE IF Present(AnnotationWarmupDuration) /\ duration.err # Nil
          THEN [config |-> c2,
                err |-> "invalid warmup-duration value " \o Quote(durationStr)
                        \o ": " \o duration.err]
          ELSE IF Present(AnnotationWarmupDuration) /\ duration.d < Second
          THEN [config |-> c2,
                err |-> "warmup-duration must be at least 1s, got "
                        \o FormatDuration(duration.d)]
          ELSE IF AutoDetectPort(c3, p.containers).err = Nil
          THEN AutoDetectPort(c3, p.containers)
          ELSE IF Present(AnnotationWarmupPort) /\ port.err # Nil
          THEN [config |-> c3,
                err |-> "invalid warmup-port value " \o Quote(portStr)
                        \o ": " \o port.err]
          ELSE IF Present(AnnotationWarmupPort) /\ (port.n < 1 \/ port.n > 65535)
          THEN [config |-> c3,
                err |-> "warmup-port must be between 1 and 65535, got " \o Itoa(port.n)]
          ELSE IF Present(AnnotationWarmupPort)
          THEN [config |-> [c3 EXCEPT !.Port = port.n], err |-> Nil]
          ELSE AutoDetectPort(c3, p.containers)

\* a ParseConfig that takes an empty endpoint annotation as the endpoint
ParseConfig_EmptyEndpointKept(p) ==
    IF p = NilPod
    THEN [config |-> NewConfig, err |-> "pod is nil, cannot determine warmup port"]
    ELSE
      LET a == p.annotations
          Present(k) == k \in DOMAIN a /\ a[k] # <<>>
          c1 == IF AnnotationWarmupEndpoint \in DOMAIN a
                THEN [NewConfig EXCEPT !.Endpoint = a[AnnotationWarmupEndpoint]]
                ELSE NewConfig
          reqCountStr == a[AnnotationWarmupRequests]
          reqCount == Atoi(reqCountStr)
          c2 == IF Present(AnnotationWarmupRequests)
                THEN [c1 EXCEPT !.RequestCount = reqCount.n] ELSE c1
          durationStr == a[AnnotationWarmupDuration]
          duration == ParseDuration(durationStr)
          c3 == IF Present(AnnotationWarmupDuration)
                THEN [c2 EXCEPT !.Duration = duration.d] ELSE c2
          portStr == a[AnnotationWarmupPort]
          port == Atoi(portStr)
      IN  IF Present(AnnotationWarmupRequests) /\ reqCount.err # Nil
          THEN [config |-> c1,
                err |-> "invalid warmup-requests value " \o Quote(reqCountStr)
                        \o ": " \o reqCount.err]
          ELSE IF Present(AnnotationWarmupRequests) /\ reqCount.n < 1
          THEN [config |-> c1,
                err |-> "warmup-requests must be at least 1, got " \o Itoa(reqCount.n)]
          ELSE IF Present(AnnotationWarmupDuration) /\ duration.err # Nil
          THEN [config |-> c2,
                err |-> "invalid warmup-duration value " \o Quote(durationStr)
                        \o ": " \o duration.err]
          ELSE IF Present(AnnotationWarmupDuration) /\ duration.d < Second
          THEN [config |-> c2,
                err |-> "warmup-duration must be at least 1s, got "
                        \o FormatDuration(duration.d)]
          ELSE IF Present(AnnotationWarmupPort) /\ port.err # Nil
          THEN [config |-> c3,
                err |-> "invalid warmup-port value " \o Quote(portStr)
                        \o ": " \o port.err]
          ELSE IF Present(AnnotationWarmupPort) /\ (port.n < 1 \/ port.n > 65535)
          THEN [config |-> c3,
                err |-> "warmup-port must be between 1 and 65535, got " \o Itoa(port.n)]
          ELSE IF Present(AnnotationWarmupPort)
          THEN [config |-> [c3 EXCEPT !.Port = port.n], err |-> Nil]
          ELSE AutoDetectPort(c3, p.containers)

\* ParseConfig: the annotations in the code's order, then the port
ParseConfig(p) ==
    IF p = NilPod
    THEN [config |-> NewConfig, err |-> "pod is nil, cannot determine warmup port"]
    ELSE
      LET a == p.annotations
          Present(k) == k \in DOMAIN a /\ a[k] # <<>>
          c1 == IF Present(AnnotationWarmupEndpoint)
                THEN [NewConfig EXCEPT !.Endpoint = a[AnnotationWarmupEndpoint]]
                ELSE NewConfig
          reqCountStr == a[AnnotationWarmupRequests]
          reqCount == Atoi(reqCountStr)
          c2 == IF Present(AnnotationWarmupRequests)
                THEN [c1 EXCEPT !.RequestCount = reqCount.n] ELSE c1
          durationStr == a[AnnotationWarmupDuration]
          duration == ParseDuration(durationStr)
          c3 == IF Present(AnnotationWarmupDuration)
                THEN [c2 EXCEPT !.Duration = duration.d] ELSE c2
          portStr == a[AnnotationWarmupPort]
          port == Atoi(portStr)
      IN  IF Present(AnnotationWarmupRequests) /\ reqCount.err # Nil
          THEN [config |-> c1,
                err |-> "invalid warmup-requests value " \o Quote(reqCountStr)
                        \o ": " \o reqCount.err]
          ELSE IF Present(AnnotationWarmupRequests) /\ reqCount.n < 1
          THEN [config |-> c1,
                err |-> "warmup-requests must be at least 1, got " \o Itoa(reqCount.n)]
          ELSE IF Present(AnnotationWarmupDuration) /\ duration.err # Nil
          THEN [config |-> c2,
                err |-> "invalid warmup-duration value " \o Quote(durationStr)
                        \o ": " \o duration.err]
          ELSE IF Present(AnnotationWarmupDuration) /\ duration.d < Second
          THEN [config |-> c2,
                err |-> "warmup-duration must be at least 1s, got "
                        \o FormatDuration(duration.d)]
          ELSE IF Present(AnnotationWarmupPort) /\ port.err # Nil
          THEN [config |-> c3,
                err |-> "invalid warmup-port value " \o Quote(portStr)
                        \o ": " \o port.err]
          ELSE IF Present(AnnotationWarmupPort) /\ (port.n < 1 \/ port.n > 65535)
          THEN [config |-> c3,
                err |-> "warmup-port must be between 1 and 65535, got " \o Itoa(port.n)]
          ELSE IF Present(AnnotationWarmupPort)
          THEN [config |-> [c3 EXCEPT !.Port = port.n], err |-> Nil]
          ELSE AutoDetectPort(c3, p.containers)

\* a BuildEndpointURL that does not add the leading slash
BuildEndpointURL_NoSlash(c) ==
    "http://" \o c.PodIP \o ":" \o Itoa(c.Port) \o Str(c.Endpoint)

\* Config.BuildEndpointURL
BuildEndpointURL(c) ==
    LET endpoint == IF Len(c.Endpoint) = 0 \/ c.Endpoint[1] # "/"
                    THEN <<"/">> \o c.Endpoint ELSE c.Endpoint
    IN  "http://" \o c.PodIP \o ":" \o Itoa(c.Port) \o Str(endpoint)

-----------------------------------------------------------------------------
(* pkg/warmup: Result, BuildMessage and VegetaExecutor.Execute *)

\* &warmup.Result{}
NewResult ==
    [Success |-> FALSE, RequestsCompleted |-> 0, RequestsFailed |-> 0,
     TotalDuration |-> 0, LatencyP50 |-> 0, LatencyP99 |-> 0,
     Error |-> Nil, Message |-> ""]

\* a nil *warmup.Result
NilResult == [nil |-> TRUE]

ErrNoPodIP == "pod IP not set"
DeadlineExceeded == "context deadline exceeded"
Canceled == "context canceled"

\* fmt's %.1f of completed/total*100; with fewer than 16 requests the value
\* is never halfway between two tenths, so rounding to nearest is exact
FormatRate(completed, total) ==
    LET tenths == (2000 * completed + total) \div (2 * total)
    IN  Itoa(tenths \div 10) \o "." \o Itoa(tenths % 10)

\* a BuildMessage that looks at the request counts before the error
BuildMessage_SkippedFirst(r) ==
    IF r.RequestsCompleted = 0 /\ r.RequestsFailed = 0
    THEN "warmup skipped: no requests executed"
    ELSE IF r.Error # Nil THEN "warmup failed: " \o r.Error
    ELSE IF r.Success
    THEN "warmup completed: " \o Itoa(r.RequestsCompleted) \o "/"
         \o Itoa(r.RequestsCompleted + r.RequestsFailed)
         \o " requests succeeded ("
         \o FormatRate(r.RequestsCompleted, r.RequestsCompleted + r.RequestsFailed)
         \o "%), P50=" \o FormatDuration(r.LatencyP50)
         \o ", P99=" \o FormatDuration(r.LatencyP99)
    ELSE "warmup completed with failures: " \o Itoa(r.RequestsCompleted) \o "/"
         \o Itoa(r.RequestsCompleted + r.RequestsFailed)
         \o " requests succeeded ("
         \o FormatRate(r.RequestsCompleted, r.RequestsCompleted + r.RequestsFailed)
         \o "%)"

\* a BuildMessage that reports failures whenever a request failed
BuildMessage_FailuresByCount(r) ==
    IF r.Error # Nil THEN "warmup failed: " \o r.Error
    ELSE IF r.RequestsCompleted = 0 /\ r.RequestsFailed = 0
    THEN "warmup skipped: no requests executed"
    ELSE IF r.RequestsFailed = 0
    THEN "warmup completed: " \o Itoa(r.RequestsCompleted) \o "/"
         \o Itoa(r.RequestsCompleted + r.RequestsFailed)
         \o " requests succeeded ("
         \o FormatRate(r.RequestsCompleted, r.RequestsCompleted + r.RequestsFailed)
         \o "%), P50=" \o FormatDuration(r.LatencyP50)
         \o ", P99=" \o FormatDuration(r.LatencyP99)
    ELSE "warmup completed with failures: " \o Itoa(r.RequestsCompleted) \o "/"
         \o Itoa(r.RequestsCompleted + r.RequestsFailed)
         \o " requests succeeded ("
         \o FormatRate(r.RequestsCompleted, r.RequestsCompleted + r.RequestsFailed)
         \o "%)"

\* Result.BuildMessage
BuildMessage(r) ==
    IF r.Error # Nil THEN "warmup failed: " \o r.Error
    ELSE IF r.RequestsCompleted = 0 /\ r.RequestsFailed = 0
    THEN "warmup skipped: no requests executed"
    ELSE IF r.Success
    THEN "warmup completed: " \o Itoa(r.RequestsCompleted) \o "/"
         \o Itoa(r.RequestsCompleted + r.RequestsFailed)
         \o " requests succeeded ("
         \o FormatRate(r.RequestsCompleted, r.RequestsCompleted + r.RequestsFailed)
         \o "%), P50=" \o FormatDuration(r.LatencyP50)
         \o ", P99=" \o FormatDuration(r.LatencyP99)
    ELSE "warmup completed with failures: " \o Itoa(r.RequestsCompleted) \o "/"
         \o Itoa(r.RequestsCompleted + r.RequestsFailed)
         \o " requests succeeded ("
         \o FormatRate(r.RequestsCompleted, r.RequestsCompleted + r.RequestsFailed)
         \o "%)"

\* a rate in requests per second
Rate_PerSecond(c) == [Freq |-> c.RequestCount, Per |-> Second]

\* vegeta.Rate{Freq: config.RequestCount, Per: config.Duration}
Rate(c) == [Freq |-> c.RequestCount, Per |-> c.Duration]

\* the time a constant pacer leaves between two requests
Interval(rate) == rate.Per \div rate.Freq

\* the duration Execute hands to attacker.Attack
AttackDuration(c) == c.Duration

\* a per-request timeout without the floor of one second
PerRequestTimeout_NoFloor(c) ==
    LET t == c.Duration \div c.RequestCount
    IN  IF t > 10 * Second THEN 10 * Second ELSE t

\* the per-request timeout Execute gives the attacker
PerRequestTimeout(c) ==
    LET t == c.Duration \div c.RequestCount
    IN  IF t < Second THEN Second
        ELSE IF t > 10 * Second THEN 10 * Second
        ELSE t

\* What one attack did, as Execute sees it: whether ctx.Done() won the select
\* (and with which ctx.Err()), and the metrics vegeta collected.
Runs ==
    [cancelled : {TRUE}, ctxErr : {DeadlineExceeded, Canceled},
     requests : {0}, successes : {0}, duration : {0}, p50 : {0}, p99 : {0}]
    \cup
    { r \in [cancelled : {FALSE}, ctxErr : {Nil},
             requests : 1..MaxRequests, successes : 0..MaxRequests,
             duration : {2 * Second}, p50 : {5}, p99 : {1500}] :
        r.successes <= r.requests }

\* the state of an attack before Execute is called: the context's error (Nil
\* while it is live), the goroutine of executor.go:79, the attackDone channel,
\* the attacker's stop signal, the dispatcher, the requests dispatched and in
\* flight, when each was sent, what metrics.Add collected, the attacker's
\* per-request timeout, and the case Execute's select took with
\* what it found ready
NoAttack ==
    [ctx |-> Nil, goroutine |-> "none", attackDone |-> FALSE, stopped |-> FALSE,
     dispatching |-> FALSE, dispatched |-> 0, dispatchedAt |-> <<>>, inflight |-> 0,
     requests |-> 0, successes |-> 0, sent |-> {}, metricsClosed |-> FALSE,
     timeout |-> 0,
     selected |-> [case |-> "none", ctx |-> Nil, attackDone |-> FALSE]]

\* an Execute that runs the attack without looking at the pod IP
Execute_PodIPUnchecked(c, run) ==
    IF run.cancelled
    THEN [NewResult EXCEPT !.Error = run.ctxErr, !.Message = "warmup cancelled"]
    ELSE
      LET r == [NewResult EXCEPT
                  !.RequestsCompleted = run.successes,
                  !.RequestsFailed = run.requests - run.successes,
                  !.TotalDuration = run.duration,
                  !.LatencyP50 = run.p50,
                  !.LatencyP99 = run.p99,
                  !.Success = run.successes > 0]
      IN  [r EXCEPT !.Message = BuildMessage(r)]

\* an Execute whose cancelled result still reports the successes collected
Execute_CancelKeepsSuccess(c, run) ==
    IF c.PodIP = ""
    THEN [NewResult EXCEPT !.Error = ErrNoPodIP,
                           !.Message = "cannot execute warmup: pod IP not set"]
    ELSE IF run.cancelled
    THEN [NewResult EXCEPT !.Error = run.ctxErr, !.Message = "warmup cancelled",
                           !.Success = run.successes > 0]
    ELSE
      LET r == [NewResult EXCEPT
                  !.RequestsCompleted = run.successes,
                  !.RequestsFailed = run.requests - run.successes,
                  !.TotalDuration = run.duration,
                  !.LatencyP50 = run.p50,
                  !.LatencyP99 = run.p99,
                  !.Success = run.successes > 0]
      IN  [r EXCEPT !.Message = BuildMessage(r)]

\* an Execute that asks for every request to succeed
Execute_AllMustSucceed(c, run) ==
    IF c.PodIP = ""
    THEN [NewResult EXCEPT !.Error = ErrNoPodIP,
                           !.Message = "cannot execute warmup: pod IP not set"]
    ELSE IF run.cancelled
    THEN [NewResult EXCEPT !.Error = run.ctxErr, !.Message = "warmup cancelled"]
    ELSE
      LET r == [NewResult EXCEPT
                  !.RequestsCompleted = run.successes,
                  !.RequestsFailed = run.requests - run.successes,
                  !.TotalDuration = run.duration,
                  !.LatencyP50 = run.p50,
                  !.LatencyP99 = run.p99,
                  !.Success = run.successes = run.requests]
      IN  [r EXCEPT !.Message = BuildMessage(r)]

\* an Execute whose cancelled result reports the requests collected so far
Execute_CancelKeepsCounts(c, run) ==
    IF c.PodIP = ""
    THEN [NewResult EXCEPT !.Error = ErrNoPodIP,
                           !.Message = "cannot execute warmup: pod IP not set"]
    ELSE IF run.cancelled
    THEN [NewResult EXCEPT !.Error = run.ctxErr, !.Message = "warmup cancelled",
                           !.RequestsCompleted = run.successes,
                           !.RequestsFailed = run.requests - run.successes]
    ELSE
      LET r == [NewResult EXCEPT
                  !.RequestsCompleted = run.successes,
                  !.RequestsFailed = run.requests - run.successes,
                  !.TotalDuration = run.duration,
                  !.LatencyP50 = run.p50,
                  !.LatencyP99 = run.p99,
                  !.Success = run.successes > 0]
      IN  [r EXCEPT !.Message = BuildMessage(r)]

\* VegetaExecutor.Execute, given what the attack did
Execute(c, run) ==
    IF c.PodIP = ""
    THEN [NewResult EXCEPT !.Error = ErrNoPodIP,
                           !.Message = "cannot execute warmup: pod IP not set"]
    ELSE IF run.cancelled
    THEN [NewResult EXCEPT !.Error = run.ctxErr, !.Message = "warmup cancelled"]
    ELSE
      LET r == [NewResult EXCEPT
                  !.RequestsCompleted = run.successes,
                  !.RequestsFailed = run.requests - run.successes,
                  !.TotalDuration = run.duration,
                  !.LatencyP50 = run.p50,
                  !.LatencyP99 = run.p99,
                  !.Success = run.successes > 0]
      IN  [r EXCEPT !.Message = BuildMessage(r)]

-----------------------------------------------------------------------------
(* pkg/controller: the helpers of PodReconciler *)

\* 5 * time.Second, the delay of every requeue
RequeueDelay == 5 * Second

\* index of the first condition of the given type; 0 when there is none
ConditionIndex(conditions, conditionType) ==
    IF \E i \in 1..Len(conditions) : conditions[i].type = conditionType
    THEN CHOOSE i \in 1..Len(conditions) :
            /\ conditions[i].type = conditionType
            /\ \A j \in 1..(i - 1) : conditions[j].type # conditionType
    ELSE 0

\* an isConditionTrue that never finds the warmup-ready condition True
isConditionTrue_NotWarmupReady(p, conditionType) ==
    LET i == ConditionIndex(p.conditions, conditionType)
    IN  /\ conditionType # ConditionTypeWarmupReady
        /\ i # 0 /\ p.conditions[i].status = ConditionTrue

isConditionTrue(p, conditionType) ==
    LET i == ConditionIndex(p.conditions, conditionType)
    IN  i # 0 /\ p.conditions[i].status = ConditionTrue

areContainersReady(p) ==
    /\ \A i \in 1..Len(p.containerStatuses) : p.containerStatuses[i]
    /\ Len(p.containerStatuses) > 0

\* a gate check satisfied by any readiness gate
HasGate_AnyGate(p) == Len(p.gates) > 0

\* the loop of Reconcile over pod.Spec.ReadinessGates
HasGate(p) == \E i \in 1..Len(p.gates) : p.gates[i] = ReadinessGateName

\* a reason that does not look at the result
ConditionReason_AlwaysComplete(res) == "WarmupComplete"

\* setConditionTrue: reason and message from the warmup result
ConditionReason(res) ==
    IF res # NilResult /\ ~res.Success THEN "WarmupFailedOpen" ELSE "WarmupComplete"

ConditionMessage(res) ==
    IF res = NilResult THEN "Warmup readiness check passed"
    ELSE IF res.Success THEN res.Message
    ELSE "Warmup failed but pod marked ready (fail-open): " \o res.Message

\* a condition that is True only for a successful warmup
WarmupCondition_FailClosed(res, now) ==
    [type |-> ConditionTypeWarmupReady,
     status |-> IF res # NilResult /\ ~res.Success THEN ConditionFalse ELSE ConditionTrue,
     lastTransitionTime |-> now,
     reason |-> ConditionReason(res), message |-> ConditionMessage(res)]

\* the corev1.PodCondition that setConditionTrue writes
WarmupCondition(res, now) ==
    [type |-> ConditionTypeWarmupReady, status |-> ConditionTrue,
     lastTransitionTime |-> now,
     reason |-> ConditionReason(res), message |-> ConditionMessage(res)]

\* an upsert that never looks for an existing entry
UpsertCondition_Append(conditions, res, now) ==
    Append(conditions, WarmupCondition(res, now))

\* setConditionTrue: the condition list of podCopy, found-and-updated or appended
UpsertCondition(conditions, res, now) ==
    LET i == ConditionIndex(conditions, ConditionTypeWarmupReady)
    IN  IF i # 0
        THEN [conditions EXCEPT ![i] = WarmupCondition(res, now)]
        ELSE Append(conditions, WarmupCondition(res, now))

\* setConditionTrue up to the call of Status().Update: podCopy
PodCopyWithCondition(p, res, now) ==
    [p EXCEPT !.conditions = UpsertCondition(p.conditions, res, now)]

\* a config-error result marked successful
ConfigErrorResult_Success(err) ==
    [NewResult EXCEPT !.Success = TRUE,
                      !.Message = "warmup config error: " \o err,
                      !.Error = err]

\* a config-error result that drops the error's text
ConfigErrorResult_NoDetail(err) ==
    [NewResult EXCEPT !.Success = FALSE,
                      !.Message = "warmup config error",
                      !.Error = err]

\* Reconcile: the result it builds when ParseConfig failed
ConfigErrorResult(err) ==
    [NewResult EXCEPT !.Success = FALSE,
                      !.Message = "warmup config error: " \o err,
                      !.Error = err]

\* a no-executor result that counts as a failure
NoExecutorResult_Failed ==
    [NewResult EXCEPT !.Success = FALSE,
                      !.Message = "warmup skipped: no executor configured"]

\* Reconcile: the result it builds when no executor is configured
NoExecutorResult ==
    [NewResult EXCEPT !.Success = TRUE,
                      !.Message = "warmup skipped: no executor configured"]

-----------------------------------------------------------------------------
(* The API server, as the controller's client sees it *)

NotFound == "pods \"test-pod\" not found"
Conflict == "the object has been modified; please apply your changes to the latest version and try again"
ServerError == "the server is currently unable to handle the request"

\* a test that takes no error for NotFound
IsNotFound_Never(err) == FALSE

\* errors.IsNotFound
IsNotFound(err) == err = NotFound

\* client.Get: the stored pod, or an error
Get(stored, apiErr) ==
    IF apiErr # Nil THEN [pod |-> NilPod, err |-> apiErr]
    ELSE IF ~stored.exists THEN [pod |-> NilPod, err |-> NotFound]
    ELSE [pod |-> stored, err |-> Nil]

\* client.Status().Update: replaces the status of the stored pod when the
\* copy carries the stored resourceVersion
StatusUpdate(stored, podCopy, apiErr) ==
    IF apiErr # Nil THEN [pod |-> stored, err |-> apiErr]
    ELSE IF ~stored.exists THEN [pod |-> stored, err |-> NotFound]
    ELSE IF podCopy.resourceVersion # stored.resourceVersion
    THEN [pod |-> stored, err |-> Conflict]
    ELSE [pod |-> [stored EXCEPT !.phase = podCopy.phase,
                                 !.podIP = podCopy.podIP,
                                 !.containerStatuses = podCopy.containerStatuses,
                                 !.conditions = podCopy.conditions,
                                 !.resourceVersion = @ + 1],
          err |-> Nil]

\* client.Status().Update(ctx, podCopy): a request made with a context that
\* is done fails with the context's error and writes nothing
StatusUpdateCtx(ctxErr, stored, podCopy, apiErr) ==
    IF ctxErr # Nil THEN [pod |-> stored, err |-> ctxErr]
    ELSE StatusUpdate(stored, podCopy, apiErr)

\* metav1.Now(): a logical clock, the number of events so far
Now == attempts + envSteps + 1

-----------------------------------------------------------------------------
(* The pods and reconcilers the model starts from *)

Container(name, ports) == [name |-> <<name>>, ports |-> ports]

ContainerLists ==
    { <<Container("a", <<8080>>)>>,
      <<Container("a", <<8080, 9090>>)>>,
      <<Container("a", <<>>), Container("b", <<>>)>> }

AnnotationSets ==
    { <<>>,
      (AnnotationWarmupPort :> <<"8", "0">>)
        @@ (AnnotationWarmupRequests :> <<"2">>)
        @@ (AnnotationWarmupDuration :> <<"2", "s">>),
      (AnnotationWarmupPort :> <<"8", "0">>)
        @@ (AnnotationWarmupRequests :> <<"x">>),
      (AnnotationWarmupPort :> <<"8", "0">>)
        @@ (AnnotationWarmupDuration :> <<"5", "0", "0", "m", "s">>) }

GateLists ==
    { <<"example.com/gate">>, <<"example.com/gate", ReadinessGateName>> }

Phases == {PodPending, PodRunning}

ContainerStatusLists == { <<>>, <<TRUE>>, <<TRUE, FALSE>>, <<TRUE, TRUE>> }

Condition(type, status) ==
    [type |-> type, status |-> status, lastTransitionTime |-> 0,
     reason |-> "", message |-> ""]

ConditionEntries(type) ==
    { <<>> } \cup { <<Condition(type, st)>> : st \in {ConditionTrue, ConditionFalse} }

ConditionLists ==
    { a \o b : a \in ConditionEntries(ContainersReady),
               b \in ConditionEntries(ConditionTypeWarmupReady) }
    \cup
    { <<Condition(ConditionTypeWarmupReady, ConditionFalse),
        Condition(ContainersReady, ConditionTrue)>> }

Pods ==
    [exists : {TRUE}, resourceVersion : {1},
     name : {"test-pod"}, namespace : {"default"},
     annotations : AnnotationSets, containers : ContainerLists,
     gates : GateLists, phase : Phases, podIP : {"", "10.0.0.1"},
     containerStatuses : ContainerStatusLists, conditions : ConditionLists]

NoReturn == [nil |-> TRUE]
\* no second reconciler
NoPeer == [nil |-> TRUE]
NoCalls == [ParseConfig |-> 0, Execute |-> 0, Update |-> 0]
NotUpdated == "not called"

Init ==
    /\ pod \in Pods
    /\ executor \in {"nil", "vegeta"}
    /\ pc = "idle"
    /\ snap = NilPod
    /\ config = NewConfig
    /\ result = NilResult
    /\ ret = NoReturn
    /\ calls = NoCalls
    /\ updated = NotUpdated
    /\ attempts = 0
    /\ envSteps = 0
    /\ attack = NoAttack
    /\ clock = 0
    /\ reconcileCtx = Nil
    /\ peer = NoPeer

-----------------------------------------------------------------------------
(* PodReconciler.Reconcile, cut at its blocking calls *)

\* a return of Reconcile before any call of ParseConfig
ReturnEarly(p, requeueAfter, err) ==
    /\ pc' = "done"
    /\ snap' = p
    /\ ret' = [RequeueAfter |-> requeueAfter, err |-> err]
    /\ UNCHANGED <<config, result, calls>>

\* Checks without the already-True short-circuit
Checks_NoSkip(p) ==
    IF ~HasGate(p) THEN "no gate"
    ELSE IF p.phase # PodRunning THEN "requeue"
    ELSE IF ~areContainersReady(p) THEN "requeue"
    ELSE IF ~isConditionTrue(p, ContainersReady) THEN "requeue"
    ELSE "warmup"

\* Checks without the test of the ContainersReady condition
Checks_NoContainersReady(p) ==
    IF ~HasGate(p) THEN "no gate"
    ELSE IF isConditionTrue(p, ConditionTypeWarmupReady) THEN "already true"
    ELSE IF p.phase # PodRunning THEN "requeue"
    ELSE IF ~areContainersReady(p) THEN "requeue"
    ELSE "warmup"

\* Checks with the phase and readiness tests before the already-True test
Checks_PhaseFirst(p) ==
    IF ~HasGate(p) THEN "no gate"
    ELSE IF p.phase # PodRunning THEN "requeue"
    ELSE IF ~areContainersReady(p) THEN "requeue"
    ELSE IF ~isConditionTrue(p, ContainersReady) THEN "requeue"
    ELSE IF isConditionTrue(p, ConditionTypeWarmupReady) THEN "already true"
    ELSE "warmup"

\* Reconcile: the checks between r.Get and ParseConfig, in the code's order
Checks(p) ==
    IF ~HasGate(p) THEN "no gate"
    ELSE IF isConditionTrue(p, ConditionTypeWarmupReady) THEN "already true"
    ELSE IF p.phase # PodRunning THEN "requeue"
    ELSE IF ~areContainersReady(p) THEN "requeue"
    ELSE IF ~isConditionTrue(p, ContainersReady) THEN "requeue"
    ELSE "warmup"

\* a Reconcile that ignores the error of setConditionTrue
ReturnAfterUpdate_Swallowed(setErr) == [RequeueAfter |-> 0, err |-> Nil]

\* Reconcile: what it returns after setConditionTrue returned setErr
ReturnAfterUpdate(setErr) == [RequeueAfter |-> 0, err |-> setErr]

\* Reconcile from r.Get to its first blocking call: the checks, ParseConfig
\* and the result of the paths that run no warmup
ReconcileGet(apiErr) ==
    /\ pc = "idle"
    /\ attempts < MaxAttempts
    /\ LET got == Get(pod, apiErr)
           p == got.pod
           parsed == ParseConfig(p)
       IN  IF got.err # Nil
           THEN ReturnEarly(NilPod, 0, IF IsNotFound(got.err) THEN Nil ELSE got.err)
           ELSE IF Checks(p) \in {"no gate", "already true"}
           THEN ReturnEarly(p, 0, Nil)
           ELSE IF Checks(p) = "requeue"
           THEN ReturnEarly(p, RequeueDelay, Nil)
           ELSE /\ snap' = p
                /\ calls' = [calls EXCEPT !.ParseConfig = @ + 1]
                /\ ret' = ret
                /\ IF parsed.err # Nil
                   THEN /\ result' = ConfigErrorResult(parsed.err)
                        /\ config' = config
                        /\ pc' = "update"
                   ELSE /\ config' = [parsed.config EXCEPT
                                        !.PodIP = p.podIP,
                                        !.PodName = p.name,
                                        !.PodNamespace = p.namespace]
                        /\ IF executor # "nil"
                           THEN result' = result /\ pc' = "execute"
                           ELSE result' = NoExecutorResult /\ pc' = "update"
    /\ UNCHANGED <<pod, executor, attack, updated, attempts, envSteps, clock, peer,
                   reconcileCtx>>

\* r.WarmupExecutor.Execute(warmupCtx, config)
ReconcileExecute(run) ==
    /\ pc = "execute"
    /\ result' = Execute(config, run)
    /\ calls' = [calls EXCEPT !.Execute = @ + 1]
    /\ pc' = "update"
    /\ UNCHANGED <<pod, executor, attack, snap, config, ret, updated, attempts, envSteps,
                   clock, peer, reconcileCtx>>

\* a setConditionTrue that writes over whatever version is stored
ReconcileSetCondition_Forced(apiErr) ==
    /\ pc = "update"
    /\ LET podCopy == PodCopyWithCondition(
                        [snap EXCEPT !.resourceVersion = pod.resourceVersion],
                        result, Now)
           upd == StatusUpdateCtx(reconcileCtx, pod, podCopy, apiErr)
       IN  /\ pod' = upd.pod
           /\ updated' = upd.err
           /\ ret' = ReturnAfterUpdate(upd.err)
    /\ calls' = [calls EXCEPT !.Update = @ + 1]
    /\ pc' = "done"
    /\ UNCHANGED <<executor, attack, snap, config, result, attempts, envSteps,
                   clock, peer, reconcileCtx>>

\* a setConditionTrue that sets the condition on the pod it was handed
ReconcileSetCondition_InPlace(apiErr) ==
    /\ pc = "update"
    /\ LET podCopy == PodCopyWithCondition(snap, result, Now)
           upd == StatusUpdateCtx(reconcileCtx, pod, podCopy, apiErr)
       IN  /\ pod' = upd.pod
           /\ updated' = upd.err
           /\ ret' = ReturnAfterUpdate(upd.err)
           /\ snap' = podCopy
    /\ calls' = [calls EXCEPT !.Update = @ + 1]
    /\ pc' = "done"
    /\ UNCHANGED <<executor, attack, config, result, attempts, envSteps, clock, peer,
                   reconcileCtx>>

\* a setConditionTrue that is handed warmupCtx
ReconcileSetCondition_WarmupCtx(apiErr) ==
    /\ pc = "update"
    /\ LET podCopy == PodCopyWithCondition(snap, result, Now)
           upd == StatusUpdateCtx(attack.ctx, pod, podCopy, apiErr)
       IN  /\ pod' = upd.pod
           /\ updated' = upd.err
           /\ ret' = ReturnAfterUpdate(upd.err)
    /\ calls' = [calls EXCEPT !.Update = @ + 1]
    /\ pc' = "done"
    /\ UNCHANGED <<executor, attack, snap, config, result, attempts, envSteps, clock, peer,
                   reconcileCtx>>

\* r.setConditionTrue(ctx, pod, result) and the return that follows it
ReconcileSetCondition(apiErr) ==
    /\ pc = "update"
    /\ LET podCopy == PodCopyWithCondition(snap, result, Now)
           upd == StatusUpdateCtx(reconcileCtx, pod, podCopy, apiErr)
       IN  /\ pod' = upd.pod
           /\ updated' = upd.err
           /\ ret' = ReturnAfterUpdate(upd.err)
    /\ calls' = [calls EXCEPT !.Update = @ + 1]
    /\ pc' = "done"
    /\ UNCHANGED <<executor, attack, snap, config, result, attempts, envSteps, clock, peer,
                   reconcileCtx>>

\* Reconcile has returned; the work queue may hand the pod's key out again
ReconcileReturn ==
    /\ pc = "done"
    /\ pc' = "idle"
    /\ attempts' = attempts + 1
    /\ snap' = NilPod
    /\ config' = NewConfig
    /\ result' = NilResult
    /\ ret' = NoReturn
    /\ calls' = NoCalls
    /\ updated' = NotUpdated
    /\ UNCHANGED <<pod, executor, attack, envSteps, clock, peer, reconcileCtx>>

-----------------------------------------------------------------------------
(* The other clients of the API server *)

\* A write by another client.  What others wrote before the first Reconcile
\* is the choice of the initial pod.
EnvWrite(p) ==
    /\ pod.exists
    /\ pc \in {"execute", "update"} \/ (pc = "idle" /\ attempts > 0)
    /\ envSteps < MaxEnvSteps
    /\ p # pod
    /\ pod' = [p EXCEPT !.resourceVersion = pod.resourceVersion + 1]
    /\ envSteps' = envSteps + 1
    /\ UNCHANGED <<executor, attack, pc, snap, config, result, ret, calls, updated, attempts,
                   clock, peer, reconcileCtx>>

\* the kubelet reports the phase, the container statuses or ContainersReady
KubeletSetPhase(phase) == EnvWrite([pod EXCEPT !.phase = phase])

KubeletSetContainerStatuses(cs) == EnvWrite([pod EXCEPT !.containerStatuses = cs])

KubeletSetContainersReady(status) ==
    LET i == ConditionIndex(pod.conditions, ContainersReady)
        c == Condition(ContainersReady, status)
    IN  EnvWrite([pod EXCEPT !.conditions =
                    IF i # 0 THEN [@ EXCEPT ![i] = c] ELSE Append(@, c)])

\* a user edits the annotations
Annotate(a) == EnvWrite([pod EXCEPT !.annotations = a])

\* the pod is deleted
DeletePod == EnvWrite([pod EXCEPT !.exists = FALSE])

-----------------------------------------------------------------------------

Next ==
    \/ \E apiErr \in {Nil, ServerError} : ReconcileGet(apiErr)
    \/ \E run \in Runs : ReconcileExecute(run)
    \/ \E apiErr \in {Nil, ServerError} : ReconcileSetCondition(apiErr)
    \/ ReconcileReturn
    \/ \E phase \in Phases : KubeletSetPhase(phase)
    \/ \E cs \in ContainerStatusLists : KubeletSetContainerStatuses(cs)
    \/ \E status \in {ConditionTrue, ConditionFalse} : KubeletSetContainersReady(status)
    \/ \E a \in AnnotationSets : Annotate(a)
    \/ DeletePod

Spec == Init /\ [][Next]_vars

-----------------------------------------------------------------------------
(* setConditionTrue called directly and repeatedly on one pod, each time   *)
(* with the pod as stored, as a test with the fake client does             *)

UpsertPods ==
    { p \in Pods :
        /\ p.annotations = <<>>
        /\ p.containers = <<Container("a", <<8080>>)>>
        /\ HasGate(p)
        /\ p.phase = PodRunning
        /\ p.podIP = "10.0.0.1"
        /\ p.containerStatuses = <<TRUE>> }

UpsertResults ==
    { NilResult,
      NoExecutorResult,
      ConfigErrorResult("pod is nil, cannot determine warmup port"),
      [NewResult EXCEPT !.Error = DeadlineExceeded, !.Message = "warmup cancelled"] }

InitUpsert ==
    /\ pod \in UpsertPods
    /\ executor = "nil"
    /\ pc = "idle"
    /\ snap = NilPod
    /\ config = NewConfig
    /\ result = NilResult
    /\ ret = NoReturn
    /\ calls = NoCalls
    /\ updated = NotUpdated
    /\ attempts = 0
    /\ envSteps = 0
    /\ attack = NoAttack
    /\ clock = 0
    /\ reconcileCtx = Nil
    /\ peer = NoPeer

\* r.setConditionTrue(ctx, pod, res)
SetConditionTrue(res, apiErr) ==
    /\ attempts < MaxCalls
    /\ LET podCopy == PodCopyWithCondition(pod, res, Now)
           upd == StatusUpdate(pod, podCopy, apiErr)
       IN  /\ pod' = upd.pod
           /\ updated' = upd.err
    /\ snap' = pod
    /\ result' = res
    /\ calls' = [calls EXCEPT !.Update = @ + 1]
    /\ attempts' = attempts + 1
    /\ UNCHANGED <<executor, attack, pc, config, ret, envSteps, clock, peer, reconcileCtx>>

NextUpsert ==
    \E res \in UpsertResults, apiErr \in {Nil, ServerError} : SetConditionTrue(res, apiErr)

SpecUpsert == InitUpsert /\ [][NextUpsert]_vars

-----------------------------------------------------------------------------
(* pkg/webhook: PodMutator.Handle, the mutating admission webhook, and the *)
(* life of a pod from its admission on                                     *)

\* Go's map lookup: the zero value for a missing key
AnnotationValue(p, key) ==
    IF key \in DOMAIN p.annotations THEN p.annotations[key] ELSE <<>>

\* admission.Allowed(message)
Allowed(message) ==
    [Allowed |-> TRUE, Code |-> 200, Message |-> message, Patches |-> <<>>]

\* admission.Errored(code, err)
Errored(code, err) ==
    [Allowed |-> FALSE, Code |-> code, Message |-> err, Patches |-> <<>>]

\* admission.PatchResponseFromRaw(raw, marshaledPod): the JSON patch from the
\* submitted pod to the mutated one, which differ in the readiness gates only
PatchResponseFromRaw(original, mutated) ==
    [Allowed |-> TRUE, Code |-> 200, Message |-> "",
     Patches |-> [i \in 1..(Len(mutated.gates) - Len(original.gates)) |->
                    [op |-> "add", path |-> "/spec/readinessGates",
                     value |-> mutated.gates[Len(original.gates) + i]]]]

\* a Handle that does not look at the warmup annotation
Handle_IgnoreAnnotation(p, decodeErr) ==
    IF decodeErr # Nil THEN Errored(400, decodeErr)
    ELSE IF \E i \in DOMAIN p.gates : p.gates[i] = ReadinessGateName
    THEN Allowed("readiness gate already present")
    ELSE PatchResponseFromRaw(p, [p EXCEPT !.gates = Append(@, ReadinessGateName)])

\* a Handle that does not look for the gate before it appends it
Handle_NoGateCheck(p, decodeErr) ==
    IF decodeErr # Nil THEN Errored(400, decodeErr)
    ELSE IF Str(AnnotationValue(p, AnnotationWarmupEnabled)) # WarmupEnabledValue
    THEN Allowed("warmup not enabled")
    ELSE PatchResponseFromRaw(p, [p EXCEPT !.gates = Append(@, ReadinessGateName)])

\* PodMutator.Handle on the pod of the request; decodeErr is the error of
\* decoding the request's object
Handle(p, decodeErr) ==
    IF decodeErr # Nil THEN Errored(400, decodeErr)
    ELSE IF Str(AnnotationValue(p, AnnotationWarmupEnabled)) # WarmupEnabledValue
    THEN Allowed("warmup not enabled")
    ELSE IF \E i \in DOMAIN p.gates : p.gates[i] = ReadinessGateName
    THEN Allowed("readiness gate already present")
    ELSE PatchResponseFromRaw(p, [p EXCEPT !.gates = Append(@, ReadinessGateName)])

\* the API server applies the patches of an admission response
ApplyPatches(p, patches) ==
    [p EXCEPT !.gates = @ \o [i \in DOMAIN patches |-> patches[i].value]]

AdmissionAnnotationSets ==
    { <<>>,
      (AnnotationWarmupEnabled :> <<"e", "n", "a", "b", "l", "e", "d">>),
      (AnnotationWarmupEnabled :> <<"d", "i", "s", "a", "b", "l", "e", "d">>),
      (AnnotationWarmupEnabled :> <<"t", "r", "u", "e">>) }

AdmissionGateLists ==
    { <<>>, <<"example.com/gate">>, <<ReadinessGateName>> }

\* the pods submitted for creation: no status yet
AdmissionPods ==
    [exists : {TRUE}, resourceVersion : {1},
     name : {"test-pod"}, namespace : {"default"},
     annotations : AdmissionAnnotationSets,
     containers : { <<Container("a", <<8080>>)>> },
     gates : AdmissionGateLists, phase : {PodPending}, podIP : {""},
     containerStatuses : { <<>> }, conditions : { <<>> }]

InitAdmission ==
    /\ pod \in AdmissionPods
    /\ executor \in {"nil", "vegeta"}
    /\ pc = "admission"
    /\ snap = NilPod
    /\ config = NewConfig
    /\ result = NilResult
    /\ ret = NoReturn
    /\ calls = NoCalls
    /\ updated = NotUpdated
    /\ attempts = 0
    /\ envSteps = 0
    /\ attack = NoAttack
    /\ clock = 0
    /\ reconcileCtx = Nil
    /\ peer = NoPeer

\* the API server calls the webhook for the pod being created and stores the
\* pod with the patches applied, or rejects the request
AdmitPod(decodeErr) ==
    /\ pc = "admission"
    /\ LET resp == Handle(pod, decodeErr)
       IN  /\ ret' = resp
           /\ pod' = IF resp.Allowed THEN ApplyPatches(pod, resp.Patches)
                     ELSE [pod EXCEPT !.exists = FALSE]
    /\ pc' = "created"
    /\ UNCHANGED <<executor, attack, snap, config, result, calls, updated,
                   attempts, envSteps, clock, peer, reconcileCtx>>

\* the pod is scheduled and the kubelet starts it and reports its status
RunPod(phase, cs, conditions) ==
    /\ pc = "created"
    /\ pod.exists
    /\ pod' = [pod EXCEPT !.phase = phase, !.podIP = "10.0.0.1",
                          !.containerStatuses = cs, !.conditions = conditions,
                          !.resourceVersion = @ + 1]
    /\ pc' = "idle"
    /\ UNCHANGED <<executor, attack, snap, config, result, ret, calls, updated,
                   attempts, envSteps, clock, peer, reconcileCtx>>

NextAdmission ==
    \/ \E decodeErr \in {Nil, "unexpected end of JSON input"} : AdmitPod(decodeErr)
    \/ \E phase \in Phases, cs \in { <<TRUE>>, <<TRUE, FALSE>> },
          conditions \in ConditionEntries(ContainersReady) :
            RunPod(phase, cs, conditions)
    \/ Next

SpecAdmission == InitAdmission /\ [][NextAdmission]_vars

-----------------------------------------------------------------------------
(* VegetaExecutor.Execute step by step: the caller's goroutine is cut at   *)
(* the points where it blocks (the select and the receive from attackDone);*)
(* the goroutine it starts runs the attack and feeds the metrics.  Of the  *)
(* attacker the model keeps what Execute relies on: it dispatches          *)
(* RequestCount requests over the window, Stop ends the dispatching, and   *)
(* the results channel closes once the dispatching has ended and every     *)
(* request in flight has returned.                                         *)

\* the vegeta.Target of every request of one Execute
Target(c) ==
    [Method |-> "GET",
     URL |-> BuildEndpointURL(c),
     Header |-> ("User-Agent" :> <<"kube-booster/1.0">>)
                @@ ("X-Warmup-Request" :> <<"true">>)]

\* what Execute reads from the metrics after metrics.Close()
MetricsRun(a) ==
    [cancelled |-> FALSE, ctxErr |-> Nil,
     requests |-> a.requests, successes |-> a.successes,
     duration |-> 2 * Second, p50 |-> 5, p99 |-> 1500]

\* the same when the ctx.Done() case was taken
CancelledRun(a) == [MetricsRun(a) EXCEPT !.cancelled = TRUE, !.ctxErr = a.ctx]

\* a Stop that leaves the attacker dispatching
StopAttacker_Noop(a) == a

\* attacker.Stop()
StopAttacker(a) == [a EXCEPT !.stopped = TRUE]

\* a goroutine that ends without closing attackDone
CloseAttackDone_Never(a) == [a EXCEPT !.goroutine = "exited"]

\* the goroutine returns: its deferred close(attackDone) runs
CloseAttackDone(a) == [a EXCEPT !.goroutine = "exited", !.attackDone = TRUE]

\* a receive that does not wait for the channel to be closed
AttackDoneReady_NoWait(a) == TRUE

\* <-attackDone can proceed
AttackDoneReady(a) == a.attackDone

ExecConfigs ==
    [Endpoint : { <<>>, <<"/">>, <<"/", "w">>, <<"w">> },
     RequestCount : 1..MaxRequests, Duration : {2 * Second},
     PodIP : {"", "10.0.0.1"}, PodName : {"test-pod"},
     PodNamespace : {"default"}, Port : {8080, 3000}]

InitExec ==
    /\ pod = NilPod
    /\ executor = "vegeta"
    /\ pc = "call"
    /\ snap = NilPod
    /\ config \in ExecConfigs
    /\ result = NilResult
    /\ ret = NoReturn
    /\ calls = NoCalls
    /\ updated = NotUpdated
    /\ attempts = 0
    /\ envSteps = 0
    /\ attack = NoAttack
    /\ clock = 0
    /\ reconcileCtx = Nil
    /\ peer = NoPeer

\* Execute from its entry to the select: the PodIP check, then the target,
\* the attacker and the goroutine
ExecuteCall ==
    /\ pc = "call"
    /\ calls' = [calls EXCEPT !.Execute = @ + 1]
    /\ IF config.PodIP = ""
       THEN /\ result' = Execute(config, MetricsRun(attack))
            /\ pc' = "returned"
            /\ attack' = attack
       ELSE /\ attack' = [attack EXCEPT !.goroutine = "running", !.dispatching = TRUE,
                                        !.timeout = PerRequestTimeout(config)]
            /\ pc' = "select"
            /\ result' = result
    /\ UNCHANGED <<pod, executor, snap, config, ret, updated, attempts, envSteps, clock, peer,
                   reconcileCtx>>

\* the rest of the model leaves everything but the attack alone
AttackStep(a) ==
    /\ attack' = a
    /\ UNCHANGED <<pod, executor, pc, snap, config, result, ret, calls, updated,
                   attempts, envSteps, clock, peer, reconcileCtx>>

\* the caller's context is cancelled or its deadline expires
CtxDone(err) ==
    /\ pc \in {"call", "select"}
    /\ attack.ctx = Nil
    /\ AttackStep([attack EXCEPT !.ctx = err])

\* the time since the attack began: the clock's pacing intervals
Elapsed == clock * Interval(Rate(config))

\* attacker.Attack sends the next request of the window
AttackDispatch ==
    /\ attack.goroutine = "running"
    /\ attack.dispatching
    /\ ~attack.stopped
    /\ attack.dispatched < config.RequestCount
    /\ AttackStep([attack EXCEPT !.dispatched = @ + 1, !.inflight = @ + 1,
                                 !.dispatchedAt = Append(@, Elapsed),
                                 !.sent = @ \cup {Target(config)}])

\* attacker.Attack stops dispatching: the window is over or Stop was called
AttackEnd ==
    /\ attack.goroutine = "running"
    /\ attack.dispatching
    /\ attack.stopped \/ attack.dispatched = config.RequestCount
    /\ AttackStep([attack EXCEPT !.dispatching = FALSE])

\* a request in flight ends (answered, failed or timed out) and the goroutine
\* passes its result to metrics.Add
AttackRespond(ok) ==
    /\ attack.goroutine = "running"
    /\ attack.inflight > 0
    /\ AttackStep([attack EXCEPT !.inflight = @ - 1, !.requests = @ + 1,
                                 !.successes = @ + (IF ok THEN 1 ELSE 0)])

\* the results channel is closed: the range loop ends and the goroutine returns
GoroutineExit ==
    /\ attack.goroutine = "running"
    /\ ~attack.dispatching
    /\ attack.inflight = 0
    /\ AttackStep(CloseAttackDone(attack))

\* select, case <-ctx.Done(): attacker.Stop(), then wait for the goroutine
SelectCtxDone ==
    /\ pc = "select"
    /\ attack.ctx # Nil
    /\ attack' = [StopAttacker(attack) EXCEPT
                    !.selected = [case |-> "ctx.Done", ctx |-> attack.ctx,
                                  attackDone |-> attack.attackDone]]
    /\ pc' = "join"
    /\ UNCHANGED <<pod, executor, snap, config, result, ret, calls, updated,
                   attempts, envSteps, clock, peer, reconcileCtx>>

\* <-attackDone, metrics.Close() and the return of the cancelled result
JoinCancelled ==
    /\ pc = "join"
    /\ AttackDoneReady(attack)
    /\ attack' = [attack EXCEPT !.metricsClosed = TRUE]
    /\ result' = Execute(config, CancelledRun(attack))
    /\ pc' = "returned"
    /\ UNCHANGED <<pod, executor, snap, config, ret, calls, updated, attempts, envSteps,
                   clock, peer, reconcileCtx>>

\* select, case <-attackDone: metrics.Close() and the result from the metrics
SelectAttackDone ==
    /\ pc = "select"
    /\ AttackDoneReady(attack)
    /\ attack' = [attack EXCEPT
                    !.metricsClosed = TRUE,
                    !.selected = [case |-> "attackDone", ctx |-> attack.ctx,
                                  attackDone |-> attack.attackDone]]
    /\ result' = Execute(config, MetricsRun(attack))
    /\ pc' = "returned"
    /\ UNCHANGED <<pod, executor, snap, config, ret, calls, updated, attempts, envSteps,
                   clock, peer, reconcileCtx>>

NextExec ==
    \/ ExecuteCall
    \/ \E err \in {DeadlineExceeded, Canceled} : CtxDone(err)
    \/ AttackDispatch
    \/ AttackEnd
    \/ \E ok \in BOOLEAN : AttackRespond(ok)
    \/ GoroutineExit
    \/ SelectCtxDone
    \/ JoinCancelled
    \/ SelectAttackDone

SpecExec == InitExec /\ [][NextExec]_vars

\* The goroutines run and every request in flight ends (within the
\* per-request timeout); nothing obliges the context to be cancelled.
SpecExecFair ==
    /\ SpecExec
    /\ WF_vars(ExecuteCall)
    /\ WF_vars(AttackDispatch)
    /\ WF_vars(AttackEnd)
    /\ WF_vars(\E ok \in BOOLEAN : AttackRespond(ok))
    /\ WF_vars(GoroutineExit)
    /\ WF_vars(SelectCtxDone)
    /\ WF_vars(JoinCancelled)
    /\ WF_vars(SelectAttackDone)

-----------------------------------------------------------------------------
(* ParseConfig called on its own, on pods of every annotation and          *)
(* container shape                                                         *)

\* an annotation that is set to v, or not set when v is "absent"
Annotation(key, v) == IF v = "absent" THEN <<>> ELSE (key :> v)

ConfigAnnotationSets ==
    { Annotation(AnnotationWarmupEndpoint, e) @@ Annotation(AnnotationWarmupRequests, r)
        @@ Annotation(AnnotationWarmupDuration, d) @@ Annotation(AnnotationWarmupPort, p) :
        e \in {"absent", <<>>, <<"/", "w">>, <<"w">>},
        r \in {"absent", <<>>, <<"2">>, <<"0">>, <<"x">>},
        d \in {"absent", <<>>, <<"2", "s">>, <<"5", "0", "0", "m", "s">>, <<"x">>},
        p \in {"absent", <<>>, <<"8", "0">>, <<"6", "5", "5", "3", "5">>,
               <<"0">>, <<"6", "5", "5", "3", "6">>, <<"x">>} }

\* the container port is an int32 that ParseConfig reads as it is
ConfigContainerLists ==
    { <<>>,
      <<Container("a", <<>>)>>,
      <<Container("a", <<8080>>)>>,
      <<Container("a", <<0>>)>>,
      <<Container("a", <<70000>>)>>,
      <<Container("a", <<8080, 9090>>)>>,
      <<Container("a", <<8080>>), Container("b", <<6379>>)>> }

ConfigPods ==
    [exists : {TRUE}, resourceVersion : {1},
     name : {"test-pod"}, namespace : {"default"},
     annotations : ConfigAnnotationSets, containers : ConfigContainerLists,
     gates : { <<ReadinessGateName>> }, phase : {PodRunning}, podIP : {"10.0.0.1"},
     containerStatuses : { <<TRUE>> }, conditions : { <<>> }]

InitConfig ==
    /\ pod \in ConfigPods \cup {NilPod}
    /\ executor = "nil"
    /\ pc = "call"
    /\ snap = NilPod
    /\ config = NewConfig
    /\ result = NilResult
    /\ ret = NoReturn
    /\ calls = NoCalls
    /\ updated = NotUpdated
    /\ attempts = 0
    /\ envSteps = 0
    /\ attack = NoAttack
    /\ clock = 0
    /\ reconcileCtx = Nil
    /\ peer = NoPeer

\* a call that answers a nil pod with the defaults and no error
ParseConfigCall_NilDefaults ==
    /\ pc = "call"
    /\ config' = IF pod = NilPod THEN NewConfig ELSE ParseConfig(pod).config
    /\ ret' = [err |-> IF pod = NilPod THEN Nil ELSE ParseConfig(pod).err]
    /\ calls' = [calls EXCEPT !.ParseConfig = @ + 1]
    /\ pc' = "parsed"
    /\ UNCHANGED <<pod, executor, attack, snap, result, updated, attempts, envSteps, clock, peer,
                   reconcileCtx>>

\* config, err := warmup.ParseConfig(pod)
ParseConfigCall ==
    /\ pc = "call"
    /\ config' = ParseConfig(pod).config
    /\ ret' = [err |-> ParseConfig(pod).err]
    /\ calls' = [calls EXCEPT !.ParseConfig = @ + 1]
    /\ pc' = "parsed"
    /\ UNCHANGED <<pod, executor, attack, snap, result, updated, attempts, envSteps, clock, peer,
                   reconcileCtx>>

NextConfig == ParseConfigCall

SpecConfig == InitConfig /\ [][NextConfig]_vars

-----------------------------------------------------------------------------
(* The webhook called again on the pod it answered for: a mutating webhook  *)
(* may be invoked more than once for one request, and each call sees the    *)
(* pod with the earlier patches applied.  attempts counts the calls.        *)

WebhookGateLists ==
    { <<>>, <<"example.com/gate">>, <<ReadinessGateName>>,
      <<"example.com/gate", ReadinessGateName>>,
      <<ReadinessGateName, "example.com/gate">>,
      <<"example.com/gate", "example.com/other">> }

\* the annotation values of the tests and one that differs in case only
WebhookAnnotationSets ==
    AdmissionAnnotationSets
      \cup { (AnnotationWarmupEnabled :> <<"E", "n", "a", "b", "l", "e", "d">>) }

WebhookPods ==
    [exists : {TRUE}, resourceVersion : {1},
     name : {"test-pod"}, namespace : {"default"},
     annotations : WebhookAnnotationSets,
     containers : { <<Container("a", <<8080>>)>> },
     gates : WebhookGateLists, phase : {PodPending}, podIP : {""},
     containerStatuses : { <<>> }, conditions : { <<>> }]

InitWebhook ==
    /\ pod \in WebhookPods
    /\ executor = "nil"
    /\ pc = "admission"
    /\ snap = NilPod
    /\ config = NewConfig
    /\ result = NilResult
    /\ ret = NoReturn
    /\ calls = NoCalls
    /\ updated = NotUpdated
    /\ attempts = 0
    /\ envSteps = 0
    /\ attack = NoAttack
    /\ clock = 0
    /\ reconcileCtx = Nil
    /\ peer = NoPeer

\* one call of the webhook: snap is the pod of the request, ret the
\* response, and the pod goes on with the patches of an allowed response
HandleCall(decodeErr) ==
    /\ pc = "admission"
    /\ attempts < MaxCalls
    /\ snap' = pod
    /\ LET resp == Handle(pod, decodeErr)
       IN  /\ ret' = resp
           /\ pod' = IF resp.Allowed THEN ApplyPatches(pod, resp.Patches) ELSE pod
    /\ attempts' = attempts + 1
    /\ UNCHANGED <<executor, attack, pc, config, result, calls, updated, envSteps, clock, peer,
                   reconcileCtx>>

NextWebhook ==
    \E decodeErr \in {Nil, "unexpected end of JSON input"} : HandleCall(decodeErr)

SpecWebhook == InitWebhook /\ [][NextWebhook]_vars

-----------------------------------------------------------------------------
(* Reconcile from context.WithTimeout to setConditionTrue with the real     *)
(* executor and with time.  The clock counts pacing intervals               *)
(* (Duration / RequestCount) since warmupCtx was created; Execute is called *)
(* right after it, so the attack begins within the same interval.  Every    *)
(* request is answered with success within the interval it was sent in.     *)

\* config.Duration in pacing intervals of the attack's rate
Ticks(c) == AttackDuration(c) \div Interval(Rate(c))

\* the pods that pass the checks of Reconcile
DeadlinePods ==
    { p \in UpsertPods :
        /\ isConditionTrue(p, ContainersReady)
        /\ ~isConditionTrue(p, ConditionTypeWarmupReady) }

\* the configs ParseConfig makes for them, with the pod's address set
DeadlineConfigs ==
    { c \in ExecConfigs : c.Endpoint = <<"/">> /\ c.PodIP = "10.0.0.1" /\ c.Port = 8080 }

InitDeadline ==
    /\ pod \in DeadlinePods
    /\ executor = "vegeta"
    /\ pc = "timeout"
    /\ snap = pod
    /\ config \in DeadlineConfigs
    /\ result = NilResult
    /\ ret = NoReturn
    /\ calls = [NoCalls EXCEPT !.ParseConfig = 1]
    /\ updated = NotUpdated
    /\ attempts = 0
    /\ envSteps = 0
    /\ attack = NoAttack
    /\ clock = 0
    /\ reconcileCtx = Nil
    /\ peer = NoPeer

\* warmupCtx, cancel := context.WithTimeout(ctx, config.Duration): the
\* deadline is Ticks(config) from now
WithTimeout ==
    /\ pc = "timeout"
    /\ pc' = "call"
    /\ clock' = 0
    /\ UNCHANGED <<pod, executor, attack, snap, config, result, ret, calls, updated,
                   attempts, envSteps, peer, reconcileCtx>>

\* the deadline of warmupCtx passes: its timer closes ctx.Done()
DeadlineExpires ==
    /\ clock >= Ticks(config)
    /\ CtxDone(DeadlineExceeded)

\* the pacer finds the next request due: the first one at once or after one
\* interval, every other one an interval after the one before it
DispatchDue(atOrAfter) ==
    /\ attack.goroutine = "running"
    /\ attack.dispatching
    /\ ~attack.stopped
    /\ attack.dispatched < config.RequestCount
    /\ LET at == attack.dispatchedAt
           sinceLast == IF at = <<>> THEN Elapsed
                        ELSE Elapsed - at[Len(at)]
       IN  IF atOrAfter THEN sinceLast >= Interval(Rate(config))
           ELSE \/ sinceLast = Interval(Rate(config))
                \/ at = <<>> /\ Elapsed = 0

\* attacker.Attack paces the requests at the rate
PacedDispatch ==
    /\ DispatchDue(FALSE)
    /\ AttackDispatch

\* attacker.Attack ends when Stop was called or its duration has passed
PacedAttackEnd ==
    /\ attack.stopped \/ clock >= Ticks(config)
    /\ AttackEnd

\* one pacing interval passes while Execute waits; the requests sent have
\* been answered, the request that was due has been sent, and the timer of
\* the deadline fires when it is due
Tick ==
    /\ pc \in {"select", "join"}
    /\ clock < Ticks(config) + MaxLate
    /\ attack.inflight = 0
    /\ ~DispatchDue(TRUE)
    /\ clock < Ticks(config) \/ attack.ctx # Nil
    /\ clock' = clock + 1
    /\ UNCHANGED <<pod, executor, attack, pc, snap, config, result, ret, calls,
                   updated, attempts, envSteps, peer, reconcileCtx>>

\* Execute returns its result to Reconcile
ExecuteReturn ==
    /\ pc = "returned"
    /\ pc' = "update"
    /\ UNCHANGED <<pod, executor, attack, snap, config, result, ret, calls, updated,
                   attempts, envSteps, clock, peer, reconcileCtx>>

\* the context Reconcile was called with is cancelled (the manager stops);
\* warmupCtx, derived from it, is done with it unless its deadline came first
CancelReconcile ==
    /\ pc \in {"call", "select", "join", "returned", "update"}
    /\ reconcileCtx = Nil
    /\ reconcileCtx' = Canceled
    /\ attack' = IF attack.ctx = Nil THEN [attack EXCEPT !.ctx = Canceled] ELSE attack
    /\ UNCHANGED <<pod, executor, pc, snap, config, result, ret, calls, updated,
                   attempts, envSteps, clock, peer>>

NextDeadline ==
    \/ WithTimeout
    \/ CancelReconcile
    \/ ExecuteCall
    \/ DeadlineExpires
    \/ PacedDispatch
    \/ PacedAttackEnd
    \/ AttackRespond(TRUE)
    \/ GoroutineExit
    \/ Tick
    \/ SelectCtxDone
    \/ JoinCancelled
    \/ SelectAttackDone
    \/ ExecuteReturn
    \/ \E apiErr \in {Nil, ServerError} : ReconcileSetCondition(apiErr)

SpecDeadline == InitDeadline /\ [][NextDeadline]_vars

-----------------------------------------------------------------------------
(* Reconcile retried without end next to a writer that never stops.  The    *)
(* pod stays gated, Running and ready; the other client's writes change     *)
(* nothing the reconciler reads but the resourceVersion.  The               *)
(* resourceVersion is compared for equality only, so it is numbered from 1  *)
(* again whenever Reconcile has returned and holds no copy of the pod; that *)
(* and the count of writes per attempt keep the states finite.              *)

InitLive ==
    /\ pod \in DeadlinePods
    /\ executor \in {"nil", "vegeta"}
    /\ pc = "idle"
    /\ snap = NilPod
    /\ config = NewConfig
    /\ result = NilResult
    /\ ret = NoReturn
    /\ calls = NoCalls
    /\ updated = NotUpdated
    /\ attempts = 0
    /\ envSteps = 0
    /\ attack = NoAttack
    /\ clock = 0
    /\ reconcileCtx = Nil
    /\ peer = NoPeer

\* another client (the kubelet, a controller that labels pods) writes the
\* pod between this Reconcile's r.Get and its Status().Update
WriteBetween ==
    /\ pod.exists
    /\ pc \in {"execute", "update"}
    /\ envSteps < MaxEnvSteps
    /\ pod' = [pod EXCEPT !.resourceVersion = @ + 1]
    /\ envSteps' = envSteps + 1
    /\ UNCHANGED <<executor, attack, pc, snap, config, result, ret, calls, updated,
                   attempts, clock, peer, reconcileCtx>>

\* Reconcile has returned; the key is handed out again (after the backoff
\* when it returned an error, on the next event otherwise)
Requeue ==
    /\ pc = "done"
    /\ pc' = "idle"
    /\ snap' = NilPod
    /\ config' = NewConfig
    /\ result' = NilResult
    /\ ret' = NoReturn
    /\ calls' = NoCalls
    /\ updated' = NotUpdated
    /\ envSteps' = 0
    /\ pod' = [pod EXCEPT !.resourceVersion = 1]
    /\ UNCHANGED <<executor, attack, attempts, clock, peer, reconcileCtx>>

NextLive ==
    \/ ReconcileGet(Nil)
    \/ \E run \in Runs : ReconcileExecute(run)
    \/ ReconcileSetCondition(Nil)
    \/ Requeue
    \/ WriteBetween

SpecLive == InitLive /\ [][NextLive]_vars

\* The controller takes every step it can take and the work queue hands the
\* key out again; nothing is assumed of the other writer.
SpecLiveFair ==
    /\ SpecLive
    /\ WF_vars(ReconcileGet(Nil))
    /\ WF_vars(\E run \in Runs : ReconcileExecute(run))
    /\ WF_vars(ReconcileSetCondition(Nil))
    /\ WF_vars(Requeue)

-----------------------------------------------------------------------------
(* Two reconcilers on one pod: the single-flight rule of the work queue     *)
(* does not hold across two controller instances.  The second reconciler    *)
(* (peer) runs the same Reconcile; it reads the pod from its informer       *)
(* cache, which follows the stored pod with a delay.                        *)

\* the pods both reconcilers find ready, warmed up or not
OverlapPods == { p \in UpsertPods : isConditionTrue(p, ContainersReady) }

\* the warmup runs of the two reconcilers: cancelled by the deadline, or one
\* request that failed or succeeded
OverlapRuns ==
    { r \in Runs : IF r.cancelled THEN r.ctxErr = DeadlineExceeded ELSE r.requests = 1 }

InitOverlap ==
    /\ pod \in OverlapPods
    /\ executor = "vegeta"
    /\ pc = "idle"
    /\ snap = NilPod
    /\ config = NewConfig
    /\ result = NilResult
    /\ ret = NoReturn
    /\ calls = NoCalls
    /\ updated = NotUpdated
    /\ attempts = 0
    /\ envSteps = 0
    /\ attack = NoAttack
    /\ clock = 0
    /\ reconcileCtx = Nil
    /\ peer = [pc |-> "idle", cache |-> pod, snap |-> NilPod, config |-> NewConfig,
               result |-> NilResult, ret |-> NoReturn, calls |-> NoCalls,
               updated |-> NotUpdated, attempts |-> 0]

\* the rest of the model leaves everything but the peer alone
PeerStep(next) ==
    /\ peer' = next
    /\ UNCHANGED <<pod, executor, attack, pc, snap, config, result, ret, calls,
                   updated, attempts, envSteps, clock, reconcileCtx>>

\* the peer's informer receives the stored pod
CacheSync ==
    /\ peer.cache # pod
    /\ PeerStep([peer EXCEPT !.cache = pod])

\* the peer's Reconcile on the pod p it fetched, up to its first blocking
\* call; parsed is what ParseConfig returns for p
PeerAfterGet(pr, p, parsed) ==
    LET got == [pr EXCEPT !.snap = p]
    IN  IF Checks(p) \in {"no gate", "already true"}
        THEN [got EXCEPT !.pc = "done", !.ret = [RequeueAfter |-> 0, err |-> Nil]]
        ELSE IF Checks(p) = "requeue"
        THEN [got EXCEPT !.pc = "done",
                         !.ret = [RequeueAfter |-> RequeueDelay, err |-> Nil]]
        ELSE IF parsed.err # Nil
        THEN [got EXCEPT !.pc = "update",
                         !.calls.ParseConfig = @ + 1,
                         !.result = ConfigErrorResult(parsed.err)]
        ELSE [got EXCEPT !.pc = "execute",
                         !.calls.ParseConfig = @ + 1,
                         !.config = [parsed.config EXCEPT
                                       !.PodIP = p.podIP,
                                       !.PodName = p.name,
                                       !.PodNamespace = p.namespace]]

\* the peer's Reconcile from r.Get, answered by its cache, to its first
\* blocking call
PeerGet ==
    /\ peer.pc = "idle"
    /\ peer.attempts < MaxAttempts
    /\ PeerStep(PeerAfterGet(peer, peer.cache, ParseConfig(peer.cache)))

\* the peer's r.WarmupExecutor.Execute(warmupCtx, config)
PeerExecute(run) ==
    /\ peer.pc = "execute"
    /\ PeerStep([peer EXCEPT !.pc = "update",
                             !.calls.Execute = @ + 1,
                             !.result = Execute(peer.config, run)])

\* a setConditionTrue of the peer that writes over whatever version is stored
PeerSetCondition_Forced ==
    /\ peer.pc = "update"
    /\ LET podCopy == PodCopyWithCondition(
                        [peer.snap EXCEPT !.resourceVersion = pod.resourceVersion],
                        peer.result, Now)
           upd == StatusUpdate(pod, podCopy, Nil)
       IN  /\ pod' = upd.pod
           /\ peer' = [peer EXCEPT !.pc = "done",
                                   !.calls.Update = @ + 1,
                                   !.updated = upd.err,
                                   !.ret = ReturnAfterUpdate(upd.err)]
    /\ UNCHANGED <<executor, attack, pc, snap, config, result, ret, calls, updated,
                   attempts, envSteps, clock, reconcileCtx>>

\* the peer's r.setConditionTrue(ctx, pod, result) and the return after it
PeerSetCondition ==
    /\ peer.pc = "update"
    /\ LET podCopy == PodCopyWithCondition(peer.snap, peer.result, Now)
           upd == StatusUpdate(pod, podCopy, Nil)
       IN  /\ pod' = upd.pod
           /\ peer' = [peer EXCEPT !.pc = "done",
                                   !.calls.Update = @ + 1,
                                   !.updated = upd.err,
                                   !.ret = ReturnAfterUpdate(upd.err)]
    /\ UNCHANGED <<executor, attack, pc, snap, config, result, ret, calls, updated,
                   attempts, envSteps, clock, reconcileCtx>>

\* the peer's Reconcile has returned; its work queue may hand the key out again
PeerReturn ==
    /\ peer.pc = "done"
    /\ PeerStep([peer EXCEPT !.pc = "idle", !.attempts = @ + 1,
                             !.snap = NilPod, !.config = NewConfig,
                             !.result = NilResult, !.ret = NoReturn,
                             !.calls = NoCalls, !.updated = NotUpdated])

NextOverlap ==
    \/ ReconcileGet(Nil)
    \/ \E run \in OverlapRuns : ReconcileExecute(run)
    \/ ReconcileSetCondition(Nil)
    \/ ReconcileReturn
    \/ CacheSync
    \/ PeerGet
    \/ \E run \in OverlapRuns : PeerExecute(run)
    \/ PeerSetCondition
    \/ PeerReturn

SpecOverlap == InitOverlap /\ [][NextOverlap]_vars

-----------------------------------------------------------------------------
(* Execute up to the creation of the attacker, on configs of many request  *)
(* counts and durations                                                    *)

\* configs ParseConfig can return: RequestCount >= 1, Duration >= 1s
TimeoutConfigs ==
    [Endpoint : { <<"/">> },
     RequestCount : (1..12) \cup {100, 1000},
     Duration : {Second, 1500, 2 * Second, 5 * Second, 10 * Second, 10001,
                 DefaultDuration, Minute, 2 * Minute, Hour},
     PodIP : {"10.0.0.1"}, PodName : {"test-pod"},
     PodNamespace : {"default"}, Port : {8080}]

InitTimeout ==
    /\ pod = NilPod
    /\ executor = "vegeta"
    /\ pc = "call"
    /\ snap = NilPod
    /\ config \in TimeoutConfigs
    /\ result = NilResult
    /\ ret = NoReturn
    /\ calls = NoCalls
    /\ updated = NotUpdated
    /\ attempts = 0
    /\ envSteps = 0
    /\ attack = NoAttack
    /\ clock = 0
    /\ reconcileCtx = Nil
    /\ peer = NoPeer

NextTimeout == ExecuteCall

SpecTimeout == InitTimeout /\ [][NextTimeout]_vars

-----------------------------------------------------------------------------
(* Result.BuildMessage called on its own, on results of every shape: the   *)
(* fields of a Result are exported and can be set to any combination       *)

MessageResults ==
    { [NewResult EXCEPT !.Success = f.Success,
                        !.RequestsCompleted = f.RequestsCompleted,
                        !.RequestsFailed = f.RequestsFailed,
                        !.LatencyP50 = f.Latency[1],
                        !.LatencyP99 = f.Latency[2],
                        !.Error = f.Error] :
        f \in [Success : BOOLEAN,
               RequestsCompleted : 0..(MaxRequests + 1),
               RequestsFailed : 0..(MaxRequests + 1),
               Latency : { <<0, 0>>, <<5, 1500>>, <<1500, 65 * Second>> },
               Error : {Nil, ErrNoPodIP, DeadlineExceeded}] }

InitMessage ==
    /\ pod = NilPod
    /\ executor = "vegeta"
    /\ pc = "call"
    /\ snap = NilPod
    /\ config = NewConfig
    /\ result \in MessageResults
    /\ ret = NoReturn
    /\ calls = NoCalls
    /\ updated = NotUpdated
    /\ attempts = 0
    /\ envSteps = 0
    /\ attack = NoAttack
    /\ clock = 0
    /\ reconcileCtx = Nil
    /\ peer = NoPeer

\* result.Message = result.BuildMessage()
BuildMessageCall ==
    /\ pc = "call"
    /\ result' = [result EXCEPT !.Message = BuildMessage(result)]
    /\ pc' = "returned"
    /\ UNCHANGED <<pod, executor, attack, snap, config, ret, calls, updated, attempts,
                   envSteps, clock, peer, reconcileCtx>>

NextMessage == BuildMessageCall

SpecMessage == InitMessage /\ [][NextMessage]_vars

-----------------------------------------------------------------------------
(* Properties.  They read a pod with the predicates below, which are       *)
(* stated on the pod object itself and not through the controller's        *)
(* helpers.                                                                *)

Gated(p) == \E i \in DOMAIN p.gates : p.gates[i] = "kube-booster.io/warmup-ready"

\* the entries of a type in a condition list
EntriesOf(conditions, type) == { i \in DOMAIN conditions : conditions[i].type = type }

\* the status of the pod's condition of a type; "absent" when it has none
StatusOf(p, type) ==
    IF EntriesOf(p.conditions, type) = {} THEN "absent"
    ELSE p.conditions[CHOOSE i \in EntriesOf(p.conditions, type) :
                         \A j \in EntriesOf(p.conditions, type) : i <= j].status

\* the pod's warmup-ready condition
WarmupEntry(p) ==
    p.conditions[CHOOSE i \in EntriesOf(p.conditions, "kube-booster.io/warmup-ready") :
                    \A j \in EntriesOf(p.conditions, "kube-booster.io/warmup-ready") : i <= j]

AllContainersReady(p) ==
    /\ Len(p.containerStatuses) >= 1
    /\ \A i \in DOMAIN p.containerStatuses : p.containerStatuses[i] = TRUE

\* gated, Running, containers ready, ContainersReady True, warmup-ready not yet True
PreconditionsMet(p) ==
    /\ Gated(p)
    /\ p.phase = "Running"
    /\ AllContainersReady(p)
    /\ StatusOf(p, "ContainersReady") = "True"
    /\ StatusOf(p, "kube-booster.io/warmup-ready") # "True"

Fetched == snap # NilPod

\* C1 (fail-open): a Reconcile that fetched a gated, Running pod with all
\* containers ready, ContainersReady True and warmup-ready not yet True
\* reaches its status update whatever ParseConfig and the executor returned,
\* and when that update succeeds the stored warmup-ready condition is True
\* and Reconcile returns a nil error without requeue.
C1_FailOpen ==
    (pc = "done" /\ Fetched /\ PreconditionsMet(snap)) =>
        /\ calls.Update = 1
        /\ updated = Nil =>
             /\ StatusOf(pod, "kube-booster.io/warmup-ready") = "True"
             /\ ret = [RequeueAfter |-> 0, err |-> Nil]

\* a warmup that ran into its deadline, written as True
C1_Witness ==
    /\ pc = "done" /\ Fetched /\ PreconditionsMet(snap)
    /\ calls.Execute = 1
    /\ result.Error = "context deadline exceeded"
    /\ updated = Nil
    /\ StatusOf(pod, "kube-booster.io/warmup-ready") = "True"

\* C2 (monotonicity): when the fetched pod already has warmup-ready True,
\* the Reconcile is over without a call of ParseConfig, of the executor or
\* of Status().Update, whatever the pod's phase, readiness and annotations.
C2_Monotonic ==
    (Fetched /\ StatusOf(snap, "kube-booster.io/warmup-ready") = "True") =>
        /\ pc = "done"
        /\ calls = [ParseConfig |-> 0, Execute |-> 0, Update |-> 0]
        /\ updated = "not called"

\* the second Reconcile of a pod whose condition the first one wrote, after
\* the annotations were changed to ones that no longer parse
C2_Witness ==
    /\ pc = "done" /\ Fetched /\ attempts = 1 /\ envSteps = 1
    /\ Gated(snap)
    /\ StatusOf(snap, "kube-booster.io/warmup-ready") = "True"
    /\ WarmupEntry(snap).reason = "WarmupComplete"
    /\ ParseConfig(snap).err # Nil
    /\ calls.Update = 0

PreconditionUnmet(p) ==
    \/ p.phase # "Running"
    \/ Len(p.containerStatuses) = 0
    \/ \E i \in DOMAIN p.containerStatuses : p.containerStatuses[i] = FALSE
    \/ StatusOf(p, "ContainersReady") # "True"

\* C3 (precondition unmet): for a gated pod whose warmup-ready condition is
\* not True and that is not Running, has no container status, has a
\* container that is not ready or lacks ContainersReady = True, Reconcile
\* returns RequeueAfter = 5s with a nil error and calls neither ParseConfig,
\* the executor nor Status().Update, on the first attempt as on later ones.
C3_Requeue ==
    (/\ Fetched /\ Gated(snap)
     /\ StatusOf(snap, "kube-booster.io/warmup-ready") # "True"
     /\ PreconditionUnmet(snap)) =>
        /\ pc = "done"
        /\ ret = [RequeueAfter |-> 5000, err |-> Nil]
        /\ calls = [ParseConfig |-> 0, Execute |-> 0, Update |-> 0]
        /\ updated = "not called"

\* a second attempt requeued because only the ContainersReady condition is missing
C3_Witness ==
    /\ pc = "done" /\ Fetched /\ attempts = 1
    /\ Gated(snap) /\ snap.phase = "Running" /\ AllContainersReady(snap)
    /\ StatusOf(snap, "ContainersReady") = "absent"
    /\ StatusOf(snap, "kube-booster.io/warmup-ready") = "False"
    /\ ret.RequeueAfter = 5000

\* C4 (durable-write errors): when Status().Update fails, after a config
\* error as after a warmup run, the step leaves the stored pod as it was and
\* Reconcile returns that error, which is not nil.
C4_WriteErrorReturned ==
    [][(pc = "update" /\ pc' = "done" /\ updated' # Nil) =>
          /\ pod' = pod
          /\ ret'.err = updated'
          /\ ret'.err # Nil]_vars

\* a conflict after a warmup run: another client wrote the pod meanwhile
C4_Witness ==
    /\ pc = "done" /\ calls.Execute = 1 /\ calls.Update = 1
    /\ updated = Conflict
    /\ ret.err = Conflict
    /\ StatusOf(pod, "kube-booster.io/warmup-ready") # "True"

\* the same on the config-error path, with an error of the API server
C4_WitnessConfigError ==
    /\ pc = "done" /\ calls.Execute = 0 /\ calls.Update = 1
    /\ result.Error # Nil
    /\ updated = ServerError
    /\ ret.err = ServerError
    /\ StatusOf(pod, "kube-booster.io/warmup-ready") # "True"

\* C5 (reason and message of an executor result): the condition written for
\* an executor result has status True; for Success = true its reason is
\* WarmupComplete and its message the result's message, for Success = false
\* its reason is WarmupFailedOpen and its message the result's message after
\* "Warmup failed but pod marked ready (fail-open): ".
C5_ReasonMessage ==
    (pc = "done" /\ calls.Execute = 1 /\ updated = Nil) =>
        /\ WarmupEntry(pod).status = "True"
        /\ result.Success =>
             /\ WarmupEntry(pod).reason = "WarmupComplete"
             /\ WarmupEntry(pod).message = result.Message
        /\ ~result.Success =>
             /\ WarmupEntry(pod).reason = "WarmupFailedOpen"
             /\ WarmupEntry(pod).message =
                  "Warmup failed but pod marked ready (fail-open): " \o result.Message

\* a run whose two requests both failed
C5_Witness ==
    /\ pc = "done" /\ calls.Execute = 1 /\ updated = Nil
    /\ ~result.Success /\ result.RequestsFailed = 2 /\ result.Error = Nil
    /\ WarmupEntry(pod).reason = "WarmupFailedOpen"
    /\ WarmupEntry(pod).message =
         "Warmup failed but pod marked ready (fail-open): warmup completed with failures: 0/2 requests succeeded (0.0%)"

\* C6 (config error): when ParseConfig fails for a pod that passed the
\* checks, the executor is never invoked, configured or not, and the
\* condition written is True with reason WarmupFailedOpen.
C6_ConfigErrorNoExecute ==
    (Fetched /\ PreconditionsMet(snap) /\ ParseConfig(snap).err # Nil) =>
        /\ pc \in {"update", "done"}
        /\ calls.Execute = 0
        /\ (pc = "done" /\ updated = Nil) =>
             /\ WarmupEntry(pod).status = "True"
             /\ WarmupEntry(pod).reason = "WarmupFailedOpen"

\* two containers, no port override, an executor configured
C6_Witness ==
    /\ pc = "done" /\ Fetched /\ PreconditionsMet(snap)
    /\ executor = "vegeta"
    /\ Len(snap.containers) = 2
    /\ AnnotationWarmupPort \notin DOMAIN snap.annotations
    /\ calls.Execute = 0
    /\ updated = Nil
    /\ WarmupEntry(pod).reason = "WarmupFailedOpen"

\* C7 as the specification words it: a validation error of config
\* resolution is recorded as True with reason ConfigError.
C7_ReasonConfigError ==
    (/\ pc = "done" /\ Fetched /\ PreconditionsMet(snap)
     /\ ParseConfig(snap).err # Nil /\ updated = Nil) =>
        /\ WarmupEntry(pod).status = "True"
        /\ WarmupEntry(pod).reason = "ConfigError"

\* C7, amended: a validation error of config resolution is recorded as
\* True with reason WarmupFailedOpen and the message "Warmup failed but pod
\* marked ready (fail-open): warmup config error: " followed by the error.
C7_ConfigErrorRecorded ==
    (/\ pc = "done" /\ Fetched /\ PreconditionsMet(snap)
     /\ ParseConfig(snap).err # Nil /\ updated = Nil) =>
        /\ WarmupEntry(pod).status = "True"
        /\ WarmupEntry(pod).reason = "WarmupFailedOpen"
        /\ WarmupEntry(pod).message =
             "Warmup failed but pod marked ready (fail-open): warmup config error: "
             \o ParseConfig(snap).err

\* a request count that is not a number
C7_Witness ==
    /\ pc = "done" /\ Fetched /\ PreconditionsMet(snap) /\ updated = Nil
    /\ AnnotationWarmupRequests \in DOMAIN snap.annotations
    /\ snap.annotations[AnnotationWarmupRequests] = <<"x">>
    /\ WarmupEntry(pod).message =
         "Warmup failed but pod marked ready (fail-open): warmup config error: invalid warmup-requests value \"x\": strconv.Atoi: parsing \"x\": invalid syntax"

\* C8 (no executor): with WarmupExecutor nil and a config that resolves,
\* Reconcile never reaches the executor and writes the condition True with
\* reason WarmupComplete and message "warmup skipped: no executor configured".
C8_NoExecutor ==
    (/\ Fetched /\ PreconditionsMet(snap)
     /\ executor = "nil" /\ ParseConfig(snap).err = Nil) =>
        /\ pc \in {"update", "done"}
        /\ calls.Execute = 0
        /\ (pc = "done" /\ updated = Nil) =>
             /\ WarmupEntry(pod).status = "True"
             /\ WarmupEntry(pod).reason = "WarmupComplete"
             /\ WarmupEntry(pod).message = "warmup skipped: no executor configured"

\* one container with one port, no annotations, no executor
C8_Witness ==
    /\ pc = "done" /\ Fetched /\ PreconditionsMet(snap)
    /\ executor = "nil"
    /\ DOMAIN snap.annotations = {}
    /\ ParseConfig(snap).err = Nil
    /\ ParseConfig(snap).config.Port = 8080
    /\ updated = Nil
    /\ WarmupEntry(pod).message = "warmup skipped: no executor configured"

\* C9 (no gate): for a pod that does not declare the warmup-ready readiness
\* gate Reconcile returns a nil error without requeue and calls neither
\* ParseConfig, the executor nor Status().Update, whatever the pod's phase,
\* readiness, conditions and annotations.
C9_NotGatedNoOp ==
    (Fetched /\ ~Gated(snap)) =>
        /\ pc = "done"
        /\ ret = [RequeueAfter |-> 0, err |-> Nil]
        /\ calls = [ParseConfig |-> 0, Execute |-> 0, Update |-> 0]
        /\ updated = "not called"

\* a pod that would be warmed up if it declared the gate
C9_Witness ==
    /\ pc = "done" /\ Fetched /\ ~Gated(snap)
    /\ Len(snap.gates) = 1
    /\ snap.phase = "Running" /\ AllContainersReady(snap)
    /\ StatusOf(snap, "ContainersReady") = "True"
    /\ StatusOf(snap, "kube-booster.io/warmup-ready") = "False"
    /\ pod = snap

WarmupEntries(p) == EntriesOf(p.conditions, "kube-booster.io/warmup-ready")

\* C10 (upsert): a pod that starts with at most one warmup-ready entry has
\* at most one after any number of calls of setConditionTrue, and exactly
\* one once a call succeeded; that call wrote at the position of the entry
\* the pod had, or appended when it had none, and stored status True with
\* the reason and message of its own result.
C10_UpsertOnce ==
    /\ Cardinality(WarmupEntries(pod)) <= 1
    /\ (attempts > 0 /\ updated = Nil) =>
         /\ Cardinality(WarmupEntries(pod)) = 1
         /\ WarmupEntries(pod) =
              IF WarmupEntries(snap) # {} THEN WarmupEntries(snap)
              ELSE {Len(snap.conditions) + 1}
         /\ Len(pod.conditions) =
              Len(snap.conditions) + (IF WarmupEntries(snap) # {} THEN 0 ELSE 1)
         /\ \A i \in DOMAIN snap.conditions :
              i \notin WarmupEntries(pod) => pod.conditions[i] = snap.conditions[i]
         /\ WarmupEntry(pod).status = "True"
         /\ WarmupEntry(pod).reason =
              IF result = NilResult \/ result.Success
              THEN "WarmupComplete" ELSE "WarmupFailedOpen"
         /\ WarmupEntry(pod).message =
              IF result = NilResult THEN "Warmup readiness check passed"
              ELSE IF result.Success THEN result.Message
              ELSE "Warmup failed but pod marked ready (fail-open): " \o result.Message

\* the third call on a pod whose entry came first in the list and was False:
\* still two conditions, the entry in place, with the last call's reason
C10_Witness ==
    /\ attempts = 3 /\ updated = Nil /\ calls.Update = 3
    /\ Len(pod.conditions) = 2
    /\ WarmupEntries(pod) = {1}
    /\ pod.conditions[2].type = "ContainersReady"
    /\ pod.resourceVersion = 4
    /\ pod.conditions[1].lastTransitionTime = 3
    /\ pod.conditions[1].reason = "WarmupFailedOpen"
    /\ pod.conditions[1].message =
         "Warmup failed but pod marked ready (fail-open): warmup cancelled"

\* the pod carries the annotation kube-booster.io/warmup: "enabled"
Enabled(p) ==
    /\ "kube-booster.io/warmup" \in DOMAIN p.annotations
    /\ p.annotations["kube-booster.io/warmup"] = <<"e", "n", "a", "b", "l", "e", "d">>

C12_CancelledResult ==
    (attack.selected.case # "none" /\ attack.selected.ctx # Nil
       /\ ~attack.selected.attackDone) =>
        /\ attack.selected.case = "ctx.Done"
        /\ attack.stopped
        /\ pc \in {"join", "returned"}
        /\ pc = "returned" =>
             /\ result.Error = attack.ctx
             /\ result.Error \in {"context deadline exceeded", "context canceled"}
             /\ result.Message = "warmup cancelled"
             /\ result.Success = FALSE

\* the deadline expired after two requests were sent and one had succeeded
C12_Witness ==
    /\ pc = "returned"
    /\ attack.selected = [case |-> "ctx.Done", ctx |-> "context deadline exceeded",
                          attackDone |-> FALSE]
    /\ attack.dispatched = 2 /\ attack.successes = 1
    /\ result.Error = "context deadline exceeded"
    /\ result.Message = "warmup cancelled"

\* C13 (no leaked goroutine): when Execute has returned after starting the
\* goroutine, on either case of the select, the goroutine has ended with
\* attackDone closed, every request it dispatched has been added to the
\* metrics, and the metrics are never closed while the goroutine runs.
C13_GoroutineJoined ==
    /\ (pc = "returned" /\ attack.goroutine # "none") =>
         /\ attack.goroutine = "exited"
         /\ attack.attackDone
         /\ attack.inflight = 0
         /\ attack.requests = attack.dispatched
    /\ attack.metricsClosed => attack.goroutine = "exited"

\* a cancelled Execute returned after its goroutine collected two results
C13_Witness ==
    /\ pc = "returned"
    /\ attack.selected.case = "ctx.Done"
    /\ attack.goroutine = "exited" /\ attack.attackDone
    /\ attack.requests = 2 /\ attack.metricsClosed

\* C14 (no dispatch after cancellation): once Execute has taken the
\* ctx.Done() case and stopped the attacker, no further request is
\* dispatched; requests in flight may still end.
C14_NoDispatchAfterCancel ==
    [][attack.selected.case = "ctx.Done" =>
         (attack'.dispatched = attack.dispatched /\ attack'.sent = attack.sent)]_vars

\* Execute waits for the goroutine with a request in flight and a request of
\* the window not yet sent
C14_Witness ==
    /\ pc = "join"
    /\ attack.selected.case = "ctx.Done"
    /\ attack.goroutine = "running"
    /\ attack.inflight = 1
    /\ attack.dispatched = 1 /\ config.RequestCount = 2

\* C15 (termination): every call of Execute returns, after the attack ended
\* or after a cancellation once the requests in flight have ended.
C15_ExecuteReturns == (calls.Execute > 0) ~> (pc = "returned")

\* a cancelled Execute returned without the rest of the window being sent
C15_Witness ==
    /\ pc = "returned"
    /\ attack.selected.case = "ctx.Done"
    /\ attack.dispatched = 1 /\ config.RequestCount = 2
    /\ attack.requests = 1
    /\ result.Message = "warmup cancelled"

\* C16 (no pod IP): with an empty PodIP Execute returns at once, without
\* starting the goroutine or sending a request, a Result with Success false,
\* Error "pod IP not set" and no request counted.
C16_NoPodIP ==
    config.PodIP = "" =>
        /\ pc \in {"call", "returned"}
        /\ attack.goroutine = "none"
        /\ attack.dispatched = 0 /\ attack.sent = {}
        /\ pc = "returned" =>
             /\ result.Success = FALSE
             /\ result.Error = "pod IP not set"
             /\ result.RequestsCompleted = 0 /\ result.RequestsFailed = 0

C16_Witness ==
    /\ pc = "returned" /\ calls.Execute = 1
    /\ config.PodIP = "" /\ config.RequestCount = 2
    /\ result.Error = "pod IP not set"

\* C17 (success flag): a returned Result has Success true exactly when the
\* pod IP was set, the run was not cancelled and at least one request
\* succeeded, whatever the number of failed requests.
C17_SuccessFlag ==
    pc = "returned" =>
        (result.Success <=>
            (config.PodIP # "" /\ attack.selected.case = "attackDone"
               /\ attack.successes >= 1))

\* one request of two succeeded in a completed run
C17_Witness ==
    /\ pc = "returned"
    /\ attack.selected.case = "attackDone"
    /\ attack.requests = 2 /\ attack.successes = 1
    /\ result.Success

\* a request had succeeded before the run was cancelled
C17_WitnessCancelled ==
    /\ pc = "returned"
    /\ attack.selected.case = "ctx.Done"
    /\ attack.successes = 1
    /\ ~result.Success

\* the path of a request: the endpoint, with a leading "/" when it has none
PathOf(endpoint) ==
    IF endpoint = <<>> THEN "/"
    ELSE IF Head(endpoint) = "/" THEN Str(endpoint)
    ELSE "/" \o Str(endpoint)

\* C18 (request shape): every request sent is a GET of
\* http://<PodIP>:<Port><path>, the path being the endpoint with a leading
\* "/" added when missing, with the headers User-Agent: kube-booster/1.0 and
\* X-Warmup-Request: true.
C18_RequestShape ==
    \A req \in attack.sent :
        /\ req.Method = "GET"
        /\ req.URL = "http://" \o config.PodIP \o ":" \o ToString(config.Port)
                     \o PathOf(config.Endpoint)
        /\ DOMAIN req.Header = {"User-Agent", "X-Warmup-Request"}
        /\ req.Header["User-Agent"] = <<"kube-booster/1.0">>
        /\ req.Header["X-Warmup-Request"] = <<"true">>

\* two requests sent for an endpoint written without the leading slash
C18_Witness ==
    /\ attack.dispatched = 2
    /\ config.Endpoint = <<"w">> /\ config.Port = 3000
    /\ \E req \in attack.sent : req.URL = "http://10.0.0.1:3000/w"

\* a request sent for the empty endpoint
C18_WitnessEmpty ==
    /\ attack.dispatched = 1
    /\ config.Endpoint = <<>>
    /\ \E req \in attack.sent : req.URL = "http://10.0.0.1:8080/"

PortOverride(p) ==
    IF "kube-booster.io/warmup-port" \notin DOMAIN p.annotations THEN 0
    ELSE IF p.annotations["kube-booster.io/warmup-port"] = <<"8", "0">> THEN 80
    ELSE IF p.annotations["kube-booster.io/warmup-port"] = <<"6", "5", "5", "3", "5">>
    THEN 65535
    ELSE 0

\* no port is given: the annotation is missing, or set to the empty string
\* (which the code takes as not set)
NoPortOverride(p) ==
    \/ "kube-booster.io/warmup-port" \notin DOMAIN p.annotations
    \/ p.annotations["kube-booster.io/warmup-port"] = <<>>

\* the request count and the duration are not set or set to valid values
OtherOverridesValid(p) ==
    /\ "kube-booster.io/warmup-requests" \in DOMAIN p.annotations =>
         p.annotations["kube-booster.io/warmup-requests"] \in { <<>>, <<"2">> }
    /\ "kube-booster.io/warmup-duration" \in DOMAIN p.annotations =>
         p.annotations["kube-booster.io/warmup-duration"] \in { <<>>, <<"2", "s">> }

\* C20 (port precedence): with a valid port annotation ParseConfig succeeds
\* with that port whatever containers and ports the pod declares; the port
\* of the pod's single container is used only when no port is given.
C20_PortPrecedence ==
    (pc = "parsed" /\ pod # NilPod) =>
        /\ (PortOverride(pod) # 0 /\ ret.err = "<nil>") =>
             config.Port = PortOverride(pod)
        /\ (PortOverride(pod) # 0 /\ OtherOverridesValid(pod)) => ret.err = "<nil>"
        /\ (ret.err = "<nil>" /\ ~NoPortOverride(pod)) => config.Port = PortOverride(pod)
        /\ (ret.err = "<nil>" /\ NoPortOverride(pod)) =>
             /\ Len(pod.containers) = 1
             /\ Len(pod.containers[1].ports) = 1
             /\ config.Port = pod.containers[1].ports[1]

\* port annotation 80 on a pod whose single container declares port 8080
C20_Witness ==
    /\ pc = "parsed" /\ ret.err = "<nil>"
    /\ PortOverride(pod) = 80
    /\ Len(pod.containers) = 1 /\ pod.containers[1].ports = <<8080>>
    /\ config.Port = 80
    /\ config.RequestCount = 2 /\ config.Duration = 2000

\* port annotation 80 on a pod of two containers
C20_WitnessTwoContainers ==
    /\ pc = "parsed" /\ ret.err = "<nil>"
    /\ PortOverride(pod) = 80
    /\ Len(pod.containers) = 2
    /\ config.Port = 80

\* C21 (port auto-detection): with no port given, ParseConfig takes the port
\* only of a pod with exactly one container declaring exactly one port;
\* more than one container is the "multiple containers" error, one container
\* with more than one port the "multiple ports" error, no container or no
\* port the "no container ports found" error, and no error leaves a port.
C21_AutoDetection ==
    (pc = "parsed" /\ pod # NilPod /\ NoPortOverride(pod) /\ OtherOverridesValid(pod)) =>
        IF Len(pod.containers) = 1 /\ Len(pod.containers[1].ports) = 1
        THEN ret.err = "<nil>" /\ config.Port = pod.containers[1].ports[1]
        ELSE /\ config.Port = 0
             /\ Len(pod.containers) > 1 =>
                  ret.err = "pod has multiple containers, please specify warmup port using annotation kube-booster.io/warmup-port"
             /\ (Len(pod.containers) = 1 /\ Len(pod.containers[1].ports) > 1) =>
                  ret.err = "container \"a\" has multiple ports, please specify warmup port using annotation kube-booster.io/warmup-port"
             /\ (Len(pod.containers) = 0
                   \/ (Len(pod.containers) = 1 /\ Len(pod.containers[1].ports) = 0)) =>
                  ret.err = "cannot determine warmup port: no container ports found, please specify using annotation kube-booster.io/warmup-port"

\* two containers and no port annotation: the call fails and names no port
C21_Witness ==
    /\ pc = "parsed" /\ pod # NilPod
    /\ "kube-booster.io/warmup-port" \notin DOMAIN pod.annotations
    /\ Len(pod.containers) = 2
    /\ ret.err # "<nil>" /\ config.Port = 0

\* one container with two ports and no port annotation
C21_WitnessMultiplePorts ==
    /\ pc = "parsed" /\ pod # NilPod
    /\ "kube-booster.io/warmup-port" \notin DOMAIN pod.annotations
    /\ Len(pod.containers) = 1 /\ Len(pod.containers[1].ports) = 2
    /\ ret.err # "<nil>" /\ config.Port = 0

\* the annotation key is set to a value outside the given set
Malformed(p, key, valid) ==
    key \in DOMAIN p.annotations /\ p.annotations[key] \notin valid

\* C22 as stated (malformed override): every present value of the request
\* count, duration or port annotation that is not a valid in-range value
\* makes ParseConfig return an error.
C22_MalformedRejected ==
    (/\ pc = "parsed" /\ pod # NilPod
     /\ \/ Malformed(pod, "kube-booster.io/warmup-requests", { <<"2">> })
        \/ Malformed(pod, "kube-booster.io/warmup-duration", { <<"2", "s">> })
        \/ Malformed(pod, "kube-booster.io/warmup-port",
                     { <<"8", "0">>, <<"6", "5", "5", "3", "5">> }))
    => ret.err # "<nil>"

\* C22 (malformed override, amended): every present and non-empty value of
\* the request count, duration or port annotation that is not a valid
\* in-range value makes ParseConfig return an error; an annotation set to
\* the empty string is read as not set, so the count and the duration keep
\* their defaults and the port is taken from the single container.
C22_NonEmptyMalformedRejected ==
    (pc = "parsed" /\ pod # NilPod) =>
        /\ (\/ Malformed(pod, "kube-booster.io/warmup-requests", { <<>>, <<"2">> })
            \/ Malformed(pod, "kube-booster.io/warmup-duration", { <<>>, <<"2", "s">> })
            \/ Malformed(pod, "kube-booster.io/warmup-port",
                         { <<>>, <<"8", "0">>, <<"6", "5", "5", "3", "5">> }))
           => ret.err # "<nil>"
        /\ (/\ ret.err = "<nil>"
            /\ "kube-booster.io/warmup-requests" \in DOMAIN pod.annotations
            /\ pod.annotations["kube-booster.io/warmup-requests"] = <<>>)
           => config.RequestCount = 3
        /\ (/\ ret.err = "<nil>"
            /\ "kube-booster.io/warmup-duration" \in DOMAIN pod.annotations
            /\ pod.annotations["kube-booster.io/warmup-duration"] = <<>>)
           => config.Duration = 30000
        /\ (/\ ret.err = "<nil>"
            /\ "kube-booster.io/warmup-port" \in DOMAIN pod.annotations
            /\ pod.annotations["kube-booster.io/warmup-port"] = <<>>)
           => /\ Len(pod.containers) = 1 /\ Len(pod.containers[1].ports) = 1
              /\ config.Port = pod.containers[1].ports[1]

\* a duration that cannot be parsed, everything else valid: an error
C22_Witness ==
    /\ pc = "parsed" /\ pod # NilPod
    /\ "kube-booster.io/warmup-duration" \in DOMAIN pod.annotations
    /\ pod.annotations["kube-booster.io/warmup-duration"] = <<"x">>
    /\ "kube-booster.io/warmup-requests" \notin DOMAIN pod.annotations
    /\ PortOverride(pod) = 80
    /\ ret.err # "<nil>"

\* a request count set to the empty string: no error and the default count
C22_WitnessEmpty ==
    /\ pc = "parsed" /\ pod # NilPod
    /\ "kube-booster.io/warmup-requests" \in DOMAIN pod.annotations
    /\ pod.annotations["kube-booster.io/warmup-requests"] = <<>>
    /\ ret.err = "<nil>" /\ config.RequestCount = 3

\* C23 (nil pod): ParseConfig called with a nil pod returns an error, and
\* the configuration that comes with the error names no port.
C23_NilPod ==
    (pc = "parsed" /\ pod = NilPod) =>
        /\ ret.err = "pod is nil, cannot determine warmup port"
        /\ config.Port = 0

\* ParseConfig has been called with the nil pod
C23_Witness ==
    pc = "parsed" /\ pod = NilPod /\ calls.ParseConfig = 1 /\ ret.err # "<nil>"

\* C24 (defaults): a pod with no override annotation and one container
\* declaring one port P gives Endpoint "/", RequestCount 3, Duration 30s and
\* Port P; each override that is absent leaves its own field at the default
\* whatever the other annotations are.
C24_Defaults ==
    (pc = "parsed" /\ pod # NilPod) =>
        /\ (/\ pod.annotations = <<>>
            /\ Len(pod.containers) = 1 /\ Len(pod.containers[1].ports) = 1)
           => /\ ret.err = "<nil>"
              /\ config.Endpoint = <<"/">>
              /\ config.RequestCount = 3
              /\ config.Duration = 30000
              /\ config.Port = pod.containers[1].ports[1]
        /\ "kube-booster.io/warmup-endpoint" \notin DOMAIN pod.annotations
           => config.Endpoint = <<"/">>
        /\ ("kube-booster.io/warmup-requests" \notin DOMAIN pod.annotations
              /\ ret.err = "<nil>")
           => config.RequestCount = 3
        /\ ("kube-booster.io/warmup-duration" \notin DOMAIN pod.annotations
              /\ ret.err = "<nil>")
           => config.Duration = 30000

\* no annotation at all and the single port 8080
C24_Witness ==
    /\ pc = "parsed" /\ pod # NilPod /\ ret.err = "<nil>"
    /\ pod.annotations = <<>>
    /\ config.Endpoint = <<"/">> /\ config.RequestCount = 3
    /\ config.Duration = 30000 /\ config.Port = 8080

\* the request count is overridden and the duration is not
C24_WitnessIndependent ==
    /\ pc = "parsed" /\ pod # NilPod /\ ret.err = "<nil>"
    /\ "kube-booster.io/warmup-duration" \notin DOMAIN pod.annotations
    /\ config.RequestCount = 2 /\ config.Duration = 30000

\* how often the pod declares the warmup-ready gate
GateCount(p) ==
    Cardinality({ i \in DOMAIN p.gates : p.gates[i] = "kube-booster.io/warmup-ready" })

\* C25 (gate injection): the webhook answers with a patch that appends the
\* one gate kube-booster.io/warmup-ready exactly when the annotation
\* kube-booster.io/warmup is "enabled" and the gate is not yet declared, and
\* otherwise allows the pod with no patch; called on its own output it
\* gives no further patch, the pod never declares the gate twice and the
\* gates it declared stay as they were.
C25_GateInjection ==
    (pc = "admission" /\ attempts > 0 /\ ret.Code = 200) =>
        /\ ret.Allowed
        /\ IF Enabled(snap) /\ ~Gated(snap)
           THEN /\ ret.Patches = << [op |-> "add", path |-> "/spec/readinessGates",
                                     value |-> "kube-booster.io/warmup-ready"] >>
                /\ pod.gates = Append(snap.gates, "kube-booster.io/warmup-ready")
           ELSE /\ ret.Patches = <<>>
                /\ pod.gates = snap.gates
        /\ GateCount(pod) <= 1
        /\ Handle(pod, "<nil>").Patches = <<>>

\* the second call on a pod the first call patched: no patch, one gate
C25_Witness ==
    /\ pc = "admission" /\ attempts >= 2 /\ ret.Code = 200
    /\ Enabled(snap) /\ snap.gates = <<"example.com/gate", "kube-booster.io/warmup-ready">>
    /\ ret.Patches = <<>>
    /\ pod.gates = snap.gates

\* the first call on an enabled pod that declares another gate only
C25_WitnessPatched ==
    /\ pc = "admission" /\ attempts = 1 /\ ret.Code = 200
    /\ Enabled(snap) /\ snap.gates = <<"example.com/gate">>
    /\ Len(ret.Patches) = 1
    /\ pod.gates = <<"example.com/gate", "kube-booster.io/warmup-ready">>

\* C26 as stated (a successful run completes): a reconciliation that runs
\* the real executor against a pod whose every request succeeds in time,
\* with nothing but the controller's own deadline able to end the context,
\* returns from Execute with Success true and no error, and the condition
\* it writes has the reason WarmupComplete: the deadline never turns a
\* fully successful run into "warmup cancelled" / WarmupFailedOpen.
C26_SuccessfulRunCompletes ==
    /\ (/\ pc \in {"returned", "update", "done"} /\ reconcileCtx = "<nil>"
        /\ attack.successes = attack.requests) =>
         /\ result.Success
         /\ result.Error = "<nil>"
         /\ result.Message # "warmup cancelled"
    /\ (/\ pc = "done" /\ updated = "<nil>" /\ reconcileCtx = "<nil>"
        /\ attack.successes = attack.requests) =>
         /\ StatusOf(pod, "kube-booster.io/warmup-ready") = "True"
         /\ WarmupEntry(pod).reason = "WarmupComplete"

\* the deadline's case was taken although every request sent had succeeded,
\* and the condition was written with WarmupFailedOpen
C26_WitnessCancelled ==
    /\ pc = "done" /\ updated = "<nil>" /\ reconcileCtx = "<nil>"
    /\ attack.selected.case = "ctx.Done"
    /\ attack.dispatched = config.RequestCount
    /\ attack.successes = config.RequestCount
    /\ WarmupEntry(pod).reason = "WarmupFailedOpen"

\* the attack ended first and the run was reported complete
C26_WitnessComplete ==
    /\ pc = "done" /\ updated = "<nil>"
    /\ attack.selected.case = "attackDone"
    /\ WarmupEntry(pod).reason = "WarmupComplete"

\* the pod is gated, Running, all containers ready and ContainersReady True
StaysReady ==
    /\ Gated(pod)
    /\ pod.phase = "Running"
    /\ AllContainersReady(pod)
    /\ StatusOf(pod, "ContainersReady") = "True"

\* C27 as stated (eventual readiness): with the controller and the retry
\* mechanism weakly fair, a gated pod that stays Running with all containers
\* ready and ContainersReady True eventually has warmup-ready True, also
\* when another writer keeps updating the pod between the controller's read
\* and its status update.
C27_EventualReadiness ==
    ([]StaysReady) => <>(StatusOf(pod, "kube-booster.io/warmup-ready") = "True")

\* an update that met a conflict after the other client's write
C27_WitnessConflict ==
    /\ pc = "done" /\ calls.Execute = 1 /\ calls.Update = 1
    /\ envSteps = 1
    /\ updated = "the object has been modified; please apply your changes to the latest version and try again"
    /\ StatusOf(pod, "kube-booster.io/warmup-ready") # "True"

\* when the other writer leaves the attempts alone from some time on, the
\* condition does become True
QuietEventuallyReady ==
    (<>[](envSteps = 0)) => <>(StatusOf(pod, "kube-booster.io/warmup-ready") = "True")

\* C28 (no stale write): a status update of the controller that succeeds is
\* applied to the pod exactly as Reconcile read it; when the pod was written
\* or deleted between the read and the update, the update returns an error
\* and leaves the stored pod, with the other writer's changes, as it is.
C28_NoStaleWrite ==
    [][(pc = "update" /\ pc' = "done") =>
         IF pod = snap
         THEN updated' = "<nil>" =>
                /\ pod'.resourceVersion = snap.resourceVersion + 1
                /\ pod'.phase = snap.phase
                /\ pod'.containerStatuses = snap.containerStatuses
                /\ StatusOf(pod', "kube-booster.io/warmup-ready") = "True"
         ELSE /\ updated' # "<nil>"
              /\ pod' = pod]_vars

\* the pod left Running during the warmup: the update met a conflict and
\* the stored pod has no True condition
C28_Witness ==
    /\ pc = "done" /\ calls.Update = 1
    /\ snap.phase = "Running" /\ pod.phase = "Pending"
    /\ updated = "the object has been modified; please apply your changes to the latest version and try again"
    /\ StatusOf(pod, "kube-booster.io/warmup-ready") # "True"

\* the pod was deleted during the warmup: the update fails
C28_WitnessDeleted ==
    /\ pc = "done" /\ calls.Update = 1
    /\ ~pod.exists
    /\ updated = "pods \"test-pod\" not found"

\* the stored warmup-ready condition is one the controller wrote
WrittenByController(p) ==
    /\ EntriesOf(p.conditions, "kube-booster.io/warmup-ready") # {}
    /\ WarmupEntry(p).status = "True"
    /\ WarmupEntry(p).reason \in {"WarmupComplete", "WarmupFailedOpen"}

\* C30 (one run): once a status update of the controller has succeeded, no
\* later reconciliation of the pod invokes the executor; the executor is
\* invoked at most once in a reconciliation, and it is invoked again in a
\* later one only while no update of the controller has been stored.
C30_ExecuteOnce ==
    /\ calls.Execute <= 1
    /\ WrittenByController(pod) =>
         /\ pc \in {"idle", "done"}
         /\ calls.Execute = 1 => (pc = "done" /\ updated = "<nil>")
         /\ (pc = "done" /\ updated # "<nil>") => calls = [ParseConfig |-> 0, Execute |-> 0, Update |-> 0]

\* the reconciliation after the one that wrote the condition: it read the
\* pod with the condition and returned without a call
C30_Witness ==
    /\ attempts = 1 /\ pc = "done"
    /\ WrittenByController(pod) /\ WarmupEntry(pod).reason = "WarmupComplete"
    /\ snap = pod
    /\ calls.Execute = 0 /\ calls.Update = 0

\* a second run of the executor after an update that failed
C30_WitnessRepeated ==
    /\ attempts = 1 /\ pc = "update" /\ calls.Execute = 1
    /\ ~WrittenByController(pod)

C29_WitnessFollowing ==
    /\ peer.attempts = 1 /\ peer.pc = "done"
    /\ peer.snap = pod /\ WrittenByController(pod)
    /\ peer.calls.Execute = 0 /\ peer.calls.Update = 0

\* the peer's next attempt reads its cache before the cache has the stored
\* pod: it runs the warmup once more and its update meets the conflict again
C29_WitnessStaleRetry ==
    /\ peer.attempts = 1 /\ peer.pc = "done"
    /\ peer.calls.Execute = 1
    /\ WrittenByController(pod) /\ ~WrittenByController(peer.snap)
    /\ peer.updated # "<nil>"

\* C31 as the state diagram words it: a gated pod that is not Running, or
\* whose containers are not all ready, is requeued with the fixed delay
\* whether or not its warmup-ready condition is already True.
C31_RequeueBeforeAlreadyTrue ==
    (/\ Fetched /\ Gated(snap)
     /\ snap.phase # "Running" \/ ~AllContainersReady(snap)) =>
        /\ pc = "done"
        /\ ret = [RequeueAfter |-> 5000, err |-> Nil]

\* C31, amended (order of the checks): the already-True test comes right
\* after the gate test and before the phase and readiness tests.  A gated
\* pod whose warmup-ready condition is True returns without requeue
\* whatever its phase and readiness; a gated pod whose condition is not
\* True and that is not Running, or whose containers are not all ready, is
\* requeued with the fixed delay.
C31_AlreadyTrueFirst ==
    (Fetched /\ Gated(snap)) =>
        /\ StatusOf(snap, "kube-booster.io/warmup-ready") = "True" =>
             /\ pc = "done"
             /\ ret = [RequeueAfter |-> 0, err |-> Nil]
        /\ (/\ StatusOf(snap, "kube-booster.io/warmup-ready") # "True"
            /\ snap.phase # "Running" \/ ~AllContainersReady(snap)) =>
             /\ pc = "done"
             /\ ret = [RequeueAfter |-> 5000, err |-> Nil]

\* a Pending pod with no ready container whose condition is already True
C31_Witness ==
    /\ pc = "done" /\ Fetched /\ Gated(snap)
    /\ snap.phase = "Pending" /\ ~AllContainersReady(snap)
    /\ StatusOf(snap, "kube-booster.io/warmup-ready") = "True"
    /\ ret = [RequeueAfter |-> 0, err |-> Nil]

\* the same pod without the condition, requeued
C31_WitnessRequeued ==
    /\ pc = "done" /\ Fetched /\ Gated(snap)
    /\ snap.phase = "Pending"
    /\ StatusOf(snap, "kube-booster.io/warmup-ready") = "absent"
    /\ ret = [RequeueAfter |-> 5000, err |-> Nil]

\* C32 (context of the status write): the write that follows the warmup run
\* is made with the reconcile context.  It is attempted whatever ended the
\* run; the expiry of the warmup deadline never makes it fail; it fails
\* with the context's error exactly when the reconcile context itself was
\* cancelled, and otherwise only with an error of the API server.
C32_WriteUsesReconcileCtx ==
    [][(pc = "update" /\ pc' = "done") =>
          /\ calls'.Update = calls.Update + 1
          /\ updated' # "context deadline exceeded"
          /\ (updated' = "context canceled") <=> (reconcileCtx = "context canceled")
          /\ reconcileCtx = Nil =>
               updated' \in {Nil, "the server is currently unable to handle the request"}
          /\ ret'.err = updated']_vars

\* the run ended at the warmup deadline and the write succeeded
C32_Witness ==
    /\ pc = "done" /\ calls.Execute = 1 /\ calls.Update = 1
    /\ attack.ctx = "context deadline exceeded"
    /\ result.Error = "context deadline exceeded"
    /\ reconcileCtx = Nil
    /\ updated = Nil
    /\ StatusOf(pod, "kube-booster.io/warmup-ready") = "True"
    /\ WarmupEntry(pod).reason = "WarmupFailedOpen"

\* the reconcile context was cancelled after the deadline had ended the run
C32_WitnessCancelled ==
    /\ pc = "done" /\ calls.Update = 1
    /\ result.Error = "context deadline exceeded"
    /\ reconcileCtx = "context canceled"
    /\ updated = "context canceled"
    /\ ret.err = "context canceled"
    /\ StatusOf(pod, "kube-booster.io/warmup-ready") # "True"

\* C33 (load shape): the requests of a run leave at the constant rate
\* RequestCount per Duration: the first one within Duration / RequestCount
\* of the start and every other one exactly Duration / RequestCount after
\* the one before it.  Unless the attacker was stopped by a cancellation,
\* the dispatching does not end when RequestCount requests have been sent
\* but when the Duration window is over, and a run that was not cancelled
\* has sent RequestCount requests.
C33_LoadShape ==
    LET at == attack.dispatchedAt
        spacing == config.Duration \div config.RequestCount
    IN  /\ \A k \in 2..Len(at) : at[k] - at[k - 1] = spacing
        /\ at # <<>> => at[1] \in 0..spacing
        /\ (attack.goroutine # "none" /\ ~attack.dispatching /\ ~attack.stopped) =>
             Elapsed > config.Duration - spacing
        /\ attack.selected.case = "attackDone" => Len(at) = config.RequestCount

\* two requests over 2s, one second apart, in a run that completed
C33_Witness ==
    /\ pc = "done" /\ attack.selected.case = "attackDone"
    /\ config.RequestCount = 2 /\ config.Duration = 2000
    /\ Len(attack.dispatchedAt) = 2
    /\ attack.dispatchedAt[2] - attack.dispatchedAt[1] = 1000
    /\ Elapsed >= 2000

\* both requests have been sent and the attack is still open: the window
\* has not ended
C33_WitnessWindowOpen ==
    /\ pc = "select" /\ config.RequestCount = 2
    /\ attack.dispatched = 2 /\ attack.inflight = 0
    /\ attack.dispatching /\ ~attack.stopped
    /\ Elapsed = 1000

\* the smaller and the larger of two numbers
Smaller(a, b) == IF a <= b THEN a ELSE b
Larger(a, b) == IF a >= b THEN a ELSE b

\* C34 (per-request timeout): for every RequestCount >= 1 and Duration >= 1s
\* the timeout the attacker is created with is
\* min(max(Duration / RequestCount, 1s), 10s), the division being the
\* integer one; it lies between 1s and 10s.
C34_PerRequestTimeout ==
    (pc = "select") =>
        /\ attack.timeout =
             Smaller(Larger(config.Duration \div config.RequestCount, 1000), 10000)
        /\ attack.timeout >= 1000
        /\ attack.timeout <= 10000

\* 100 requests over 30s: the spacing is 300ms, the timeout one second
C34_Witness ==
    /\ pc = "select"
    /\ config.RequestCount = 100 /\ config.Duration = 30000
    /\ config.Duration \div config.RequestCount = 300
    /\ attack.timeout = 1000

\* 3 requests over one hour: the timeout is capped at ten seconds
C34_WitnessCapped ==
    /\ pc = "select"
    /\ config.RequestCount = 3 /\ config.Duration = 3600000
    /\ attack.timeout = 10000

\* 7 requests over 30s: the integer quotient, between the two bounds
C34_WitnessQuotient ==
    /\ pc = "select"
    /\ config.RequestCount = 7 /\ config.Duration = 30000
    /\ attack.timeout = 4285

\* the two "warmup completed" messages of a result
CompletedForms(r) ==
    LET counts == Itoa(r.RequestsCompleted) \o "/"
                  \o Itoa(r.RequestsCompleted + r.RequestsFailed)
                  \o " requests succeeded ("
                  \o FormatRate(r.RequestsCompleted, r.RequestsCompleted + r.RequestsFailed)
                  \o "%)"
    IN  { "warmup completed: " \o counts \o ", P50=" \o FormatDuration(r.LatencyP50)
            \o ", P99=" \o FormatDuration(r.LatencyP99),
          "warmup completed with failures: " \o counts }

\* C35 as stated (order of the cases): the message is the "skipped" one
\* whenever no request was issued, "warmup failed: " and the error when
\* requests were issued and Error is not nil, and a "warmup completed" one
\* otherwise.
C35_SkippedFirst ==
    (pc = "returned") =>
        IF result.RequestsCompleted + result.RequestsFailed = 0
        THEN result.Message = "warmup skipped: no requests executed"
        ELSE IF result.Error # "<nil>"
        THEN result.Message = "warmup failed: " \o result.Error
        ELSE result.Message \in CompletedForms(result)

\* C35, amended: the error is looked at first.  The message is "warmup
\* failed: " and the error whenever Error is not nil, whatever the counts;
\* the "skipped" one when Error is nil and no request was issued; a "warmup
\* completed" one otherwise.
C35_ErrorFirst ==
    (pc = "returned") =>
        IF result.Error # "<nil>"
        THEN result.Message = "warmup failed: " \o result.Error
        ELSE IF result.RequestsCompleted + result.RequestsFailed = 0
        THEN result.Message = "warmup skipped: no requests executed"
        ELSE result.Message \in CompletedForms(result)

\* an error and no request: the message names the error
C35_Witness ==
    /\ pc = "returned"
    /\ result.Error = "context deadline exceeded"
    /\ result.RequestsCompleted = 0 /\ result.RequestsFailed = 0
    /\ result.Message = "warmup failed: context deadline exceeded"

\* no error and no request
C35_WitnessSkipped ==
    /\ pc = "returned"
    /\ result.Error = "<nil>"
    /\ result.RequestsCompleted = 0 /\ result.RequestsFailed = 0
    /\ result.Message = "warmup skipped: no requests executed"

\* C36 (counts in the message): for a result with no error and at least one
\* request the message reports C/T requests succeeded with
\* C = RequestsCompleted and T = RequestsCompleted + RequestsFailed; it is
\* the "with failures" message exactly when Success is false, and the
\* message with P50 and P99 when Success is true.
C36_CountsAndFailures ==
    (/\ pc = "returned" /\ result.Error = "<nil>"
     /\ result.RequestsCompleted + result.RequestsFailed >= 1) =>
        LET C == Itoa(result.RequestsCompleted)
            T == Itoa(result.RequestsCompleted + result.RequestsFailed)
            R == FormatRate(result.RequestsCompleted,
                            result.RequestsCompleted + result.RequestsFailed)
        IN  /\ ~result.Success =>
                 result.Message = "warmup completed with failures: " \o C \o "/" \o T
                                  \o " requests succeeded (" \o R \o "%)"
            /\ result.Success =>
                 result.Message = "warmup completed: " \o C \o "/" \o T
                                  \o " requests succeeded (" \o R \o "%), P50="
                                  \o FormatDuration(result.LatencyP50) \o ", P99="
                                  \o FormatDuration(result.LatencyP99)

\* a pure-success run: three completed, none failed
C36_Witness ==
    /\ pc = "returned" /\ result.Error = "<nil>" /\ result.Success
    /\ result.RequestsCompleted = 3 /\ result.RequestsFailed = 0
    /\ result.LatencyP50 = 5 /\ result.LatencyP99 = 1500
    /\ result.Message =
         "warmup completed: 3/3 requests succeeded (100.0%), P50=5ms, P99=1.5s"

\* Success false with two of three requests failed
C36_WitnessFailures ==
    /\ pc = "returned" /\ result.Error = "<nil>" /\ ~result.Success
    /\ result.RequestsCompleted = 1 /\ result.RequestsFailed = 2
    /\ result.Message =
         "warmup completed with failures: 1/3 requests succeeded (33.3%)"

\* Success true although a request failed: no "with failures" clause
C36_WitnessPartial ==
    /\ pc = "returned" /\ result.Error = "<nil>" /\ result.Success
    /\ result.RequestsCompleted = 2 /\ result.RequestsFailed = 1
    /\ result.LatencyP50 = 1500 /\ result.LatencyP99 = 65000
    /\ result.Message =
         "warmup completed: 2/3 requests succeeded (66.7%), P50=1.5s, P99=1m5s"

\* C37 (counts of a returned result): a Result that Execute returns with an
\* error has Success false and both counts zero, whatever the metrics had
\* collected before the cancellation; a Result without an error comes from
\* the attackDone case of the select, its counts are not negative and their
\* sum is the number of requests the attack sent.
C37_ResultCounts ==
    (pc = "returned") =>
        /\ result.Error # "<nil>" =>
             /\ ~result.Success
             /\ result.RequestsCompleted = 0
             /\ result.RequestsFailed = 0
        /\ result.Error = "<nil>" =>
             /\ attack.selected.case = "attackDone"
             /\ result.RequestsCompleted >= 0
             /\ result.RequestsFailed >= 0
             /\ result.RequestsCompleted + result.RequestsFailed = attack.dispatched
             /\ attack.dispatched = attack.requests

\* a run cancelled after one request had succeeded and one had failed
C37_Witness ==
    /\ pc = "returned"
    /\ result.Error = "context canceled"
    /\ attack.requests = 2 /\ attack.successes = 1
    /\ result.RequestsCompleted = 0 /\ result.RequestsFailed = 0
    /\ ~result.Success

\* a completed run of two requests, one of them failed
C37_WitnessCompleted ==
    /\ pc = "returned"
    /\ result.Error = "<nil>"
    /\ attack.dispatched = 2
    /\ result.RequestsCompleted = 1 /\ result.RequestsFailed = 1

\* no pod IP: an error and no request
C37_WitnessNoPodIP ==
    /\ pc = "returned"
    /\ result.Error = "pod IP not set"
    /\ attack.dispatched = 0
    /\ result.RequestsCompleted = 0 /\ result.RequestsFailed = 0

\* C38 (frame of the condition write): a call of setConditionTrue leaves the
\* pod it was handed as it was.  When its update fails the stored pod is
\* unchanged.  When it succeeds the stored pod differs from the one before
\* in the warmup-ready entry and in the resourceVersion the API server
\* assigns, and in nothing else: name, namespace, annotations, containers,
\* gates, phase, pod IP and container statuses are the same, every other
\* condition has kept its content and its position, the entry is at the
\* position it had (at the end when there was none) and its status is True.
C38_Frame ==
    [][(pc = "update" /\ pc' = "done") =>
          /\ snap' = snap
          /\ updated' # Nil => pod' = pod
          /\ updated' = Nil =>
               /\ [pod' EXCEPT !.conditions = pod.conditions,
                               !.resourceVersion = pod.resourceVersion] = pod
               /\ Len(pod'.conditions) =
                    Len(pod.conditions)
                    + (IF EntriesOf(pod.conditions, "kube-booster.io/warmup-ready") = {}
                       THEN 1 ELSE 0)
               /\ \A i \in DOMAIN pod.conditions :
                    IF /\ i \in EntriesOf(pod.conditions, "kube-booster.io/warmup-ready")
                       /\ \A j \in EntriesOf(pod.conditions, "kube-booster.io/warmup-ready") :
                            i <= j
                    THEN /\ pod'.conditions[i].type = "kube-booster.io/warmup-ready"
                         /\ pod'.conditions[i].status = "True"
                    ELSE pod'.conditions[i] = pod.conditions[i]
               /\ WarmupEntry(pod').status = "True"]_vars

\* the entry was False and first in the list: it is True in place, the
\* ContainersReady condition after it is as it was, the pod handed in still
\* shows False
C38_Witness ==
    /\ pc = "done" /\ updated = Nil
    /\ Len(snap.conditions) = 2 /\ Len(pod.conditions) = 2
    /\ snap.conditions[1].type = "kube-booster.io/warmup-ready"
    /\ snap.conditions[1].status = "False"
    /\ pod.conditions[1].type = "kube-booster.io/warmup-ready"
    /\ pod.conditions[1].status = "True"
    /\ pod.conditions[2] = snap.conditions[2]
    /\ pod.conditions[2].type = "ContainersReady"
    /\ pod.annotations = snap.annotations /\ pod.gates = snap.gates

\* the pod had no entry: one is appended after the ContainersReady condition
C38_WitnessAppended ==
    /\ pc = "done" /\ updated = Nil
    /\ Len(snap.conditions) = 1 /\ Len(pod.conditions) = 2
    /\ pod.conditions[1] = snap.conditions[1]
    /\ pod.conditions[2].type = "kube-booster.io/warmup-ready"
    /\ pod.conditions[2].status = "True"

\* the pod sets the endpoint annotation, its other overrides are valid and
\* its port is the port annotation 80 or the single container port
EndpointOverride(p) ==
    /\ "kube-booster.io/warmup-endpoint" \in DOMAIN p.annotations
    /\ OtherOverridesValid(p)
    /\ \/ PortOverride(p) = 80
       \/ NoPortOverride(p) /\ Len(p.containers) = 1 /\ Len(p.containers[1].ports) = 1

\* C39 as stated (the endpoint override): an endpoint annotation that is
\* present with the empty value is rejected with an error; a value that is
\* not empty is accepted, and the URL has it after a "/" when it does not
\* start with one.
C39_EmptyEndpointRejected ==
    (pc = "parsed" /\ pod # NilPod /\ EndpointOverride(pod)) =>
        LET e == pod.annotations["kube-booster.io/warmup-endpoint"]
        IN  /\ e = <<>> => ret.err # "<nil>"
            /\ e # <<>> =>
                 /\ ret.err = "<nil>"
                 /\ BuildEndpointURL([config EXCEPT !.PodIP = "10.0.0.1"]) =
                      "http://10.0.0.1:" \o ToString(config.Port)
                      \o (IF e[1] = "/" THEN "" ELSE "/") \o Str(e)

\* C39, amended: an endpoint annotation that is present with the empty
\* value is read as not set: ParseConfig returns no error and the endpoint
\* is the default "/".  A value that is not empty is accepted as it is,
\* and the URL has it after a "/" when it does not start with one.
C39_EmptyEndpointDefault ==
    (pc = "parsed" /\ pod # NilPod /\ EndpointOverride(pod)) =>
        LET e == pod.annotations["kube-booster.io/warmup-endpoint"]
        IN  /\ ret.err = "<nil>"
            /\ e = <<>> =>
                 /\ config.Endpoint = <<"/">>
                 /\ BuildEndpointURL([config EXCEPT !.PodIP = "10.0.0.1"]) =
                      "http://10.0.0.1:" \o ToString(config.Port) \o "/"
            /\ e # <<>> =>
                 /\ config.Endpoint = e
                 /\ BuildEndpointURL([config EXCEPT !.PodIP = "10.0.0.1"]) =
                      "http://10.0.0.1:" \o ToString(config.Port)
                      \o (IF e[1] = "/" THEN "" ELSE "/") \o Str(e)

\* the empty endpoint annotation on a pod with one container port
C39_Witness ==
    /\ pc = "parsed" /\ pod # NilPod /\ EndpointOverride(pod)
    /\ pod.annotations["kube-booster.io/warmup-endpoint"] = <<>>
    /\ ret.err = "<nil>"
    /\ config.Endpoint = <<"/">> /\ config.Port = 8080

\* the endpoint "w": kept as written, requested as /w
C39_WitnessNormalized ==
    /\ pc = "parsed" /\ pod # NilPod /\ EndpointOverride(pod)
    /\ pod.annotations["kube-booster.io/warmup-endpoint"] = <<"w">>
    /\ ret.err = "<nil>"
    /\ config.Endpoint = <<"w">>
    /\ BuildEndpointURL([config EXCEPT !.PodIP = "10.0.0.1"]) = "http://10.0.0.1:80/w"

\* C40 (fetch errors): a Reconcile whose r.Get failed returns without
\* requeue and has called neither ParseConfig, the executor nor
\* Status().Update, and the stored pod is as it was.  The error it returns
\* is never the NotFound of a pod that no longer exists, for which it
\* returns nil; the failure of a fetch of a pod that exists is returned as
\* the error.  A Reconcile of a pod that no longer exists ends at the fetch.
C40_FetchErrors ==
    [][/\ (pc = "idle" /\ pc' = "done" /\ snap' = NilPod) =>
             /\ pod' = pod
             /\ calls' = [ParseConfig |-> 0, Execute |-> 0, Update |-> 0]
             /\ updated' = "not called"
             /\ ret'.RequeueAfter = 0
             /\ ret'.err # "pods \"test-pod\" not found"
             /\ ret'.err \in {"<nil>", "the server is currently unable to handle the request"}
             /\ pod.exists =>
                  ret'.err = "the server is currently unable to handle the request"
       /\ (pc = "idle" /\ pc' # "idle" /\ ~pod.exists) =>
             (pc' = "done" /\ snap' = NilPod)]_vars

\* the pod was deleted after the first attempt; the second finds nothing
C40_Witness ==
    /\ pc = "done" /\ attempts = 1 /\ envSteps = 1
    /\ ~pod.exists
    /\ snap = NilPod
    /\ ret = [RequeueAfter |-> 0, err |-> "<nil>"]
    /\ calls = [ParseConfig |-> 0, Execute |-> 0, Update |-> 0]

\* the API server failed the fetch of a pod that exists
C40_WitnessServerError ==
    /\ pc = "done" /\ pod.exists
    /\ snap = NilPod
    /\ ret = [RequeueAfter |-> 0,
              err |-> "the server is currently unable to handle the request"]
    /\ calls = [ParseConfig |-> 0, Execute |-> 0, Update |-> 0]

====
